---- MODULE Spec2Model ----
(***************************************************************************)
(* A model of oaidl-safe: the owning pointer (ptr.rs), the value-record    *)
(* codec (variant.rs), the array codec (array.rs) and the wide-string      *)
(* helpers (bstr.rs).                                                      *)
(*                                                                         *)
(* Four specifications share the module, one per component:                *)
(*   SpecPtr      the Ptr<T, D> handle and its release policies            *)
(*   SpecVariant  into_variant / from_variant on VARIANT records           *)
(*   SpecArray    into_safearray / from_safearray on SAFEARRAY records     *)
(*   SpecBStr     allocating, reading and releasing BSTR buffers           *)
(* Each leaves the variables of the other components at their initial      *)
(* values.                                                                 *)
(***************************************************************************)
EXTENDS Integers, Sequences, FiniteSets, TLC

VARIABLES
    \* ---- ptr.rs ----
    handles,    \* every Ptr value built so far: [inner, D, owned]
    mem,        \* the pointee behind each non-null raw pointer
    dropLog,    \* per raw pointer, the policies D whose D::drop ran on it
    rawHeld,    \* raw pointers the caller holds outside any handle
    lastOp,     \* the Ptr operation of the last step and what it returned
    \* ---- variant.rs ----
    vheap,      \* foreign-visible memory: VARIANT records, BSTRs, boxes, objects
    vphase,     \* "idle", "encoded" (a record exists), "decoded", "failed"
    vrec,       \* address of the value record under conversion (NULL: none)
    vsrc,       \* how the record came to be: [K, val, by, vt]
    vres,       \* what the last into_variant / from_variant returned
    vlog,       \* calls of VariantClear, in order: the records they were made on
    \* ---- array.rs ----
    sa,         \* the SAFEARRAY record as the platform holds it
    aheap,      \* foreign-visible memory next to the array: BSTRs, objects
    aphase,     \* "idle", "built" (an array exists), "decoded", "failed"
    asrc,       \* how the array came to be: [K, seq, by, vt]; vt is the
                \* discriminant of the value record holding it, 0 if none
    ares,       \* what the last into_safearray / from_safearray returned
    alog,       \* calls of the platform's array functions, in order
    \* ---- bstr.rs ----
    bheap,      \* the BSTR buffers the host allocator has handed out
    bphase,     \* "idle", "held" (the caller holds a string), "dropped"
    bown,       \* what the caller holds: [kind, inner, D]
    bsrc,       \* how the string came to be: [units, by]
    bres,       \* what the last allocation or read returned: [op, out]
    blog        \* calls of SysFreeString, in order: the pointers passed

ptrVars == <<handles, mem, dropLog, rawHeld, lastOp>>
varVars == <<vheap, vphase, vrec, vsrc, vres, vlog>>

arrVars == <<sa, aheap, aphase, asrc, ares, alog>>
bstrVars == <<bheap, bphase, bown, bsrc, bres, blog>>


vars == <<ptrVars, varVars, arrVars, bstrVars>>

(***************************************************************************)
(* Owning pointer (ptr.rs)                                                 *)
(***************************************************************************)

\* Number of distinct non-null raw pointers.
MaxPtr == 1
\* Number of Ptr values one behaviour builds.
MaxHandles == 3
\* Values a pointee can hold.
MaxVal == 1

NULL == 0
RawPointers == 1..MaxPtr

Destructors == {"DefaultDestructor", "DropDestructor"}

\* Option<NonNull<T>>: NULL stands for None.
\* raw and origin are history fields: the pointer the value was built on and
\* the operation that built it.
PtrStruct(nn, D, origin) ==
    [inner |-> nn, D |-> D, owned |-> TRUE, raw |-> nn, origin |-> origin]

\* What a step records: the operation, its receiver h, the raw pointer p it
\* concerns, the policy D, the returned pointer or handle number, and
\* whether an unreachable!() branch was entered.
Op(op, h, p, D, ret, panic) ==
    [op |-> op, h |-> h, p |-> p, D |-> D, ret |-> ret, panic |-> panic]

\* The part of the state a release policy may act on.
World == [mem |-> mem, dropLog |-> dropLog]

\* A plausible slip: the default policy releases the pointee after all.
DefaultDestructor_drop_frees(p, w) ==
    [w EXCEPT !.mem[p] = [state |-> "dropped", val |-> 0]]

\* impl PtrDestructor<T> for DefaultDestructor: fn drop(_ptr) {}
DefaultDestructor_drop(p, w) == w

\* impl PtrDestructor<T> for DropDestructor: drop_in_place(p)
DropDestructor_drop(p, w) ==
    [w EXCEPT !.mem[p] = [state |-> "dropped", val |-> 0]]

\* A call of one of the platform's array functions, as the log keeps it.
Call(f, ix, item) == [f |-> f, ix |-> ix, item |-> item]
Logged(pw, c) == [pw EXCEPT !.log = Append(@, c)]

\* OleAut32 SafeArrayDestroy(psa), on the platform's world [sa, heap, log]
SafeArrayDestroy(pw) ==
    [Logged(pw, Call("SafeArrayDestroy", 0, 0)) EXCEPT !.sa.destroyed = @ + 1]

\* A plausible slip: the array policy releases nothing.
SafeArrayDestructor_drop_forgets(ptr, pw) == pw

\* impl PtrDestructor<SAFEARRAY> for SafeArrayDestructor (array.rs):
\* SafeArrayDestroy(ptr.as_ptr())
SafeArrayDestructor_drop(ptr, pw) == SafeArrayDestroy(pw)

\* oleauto SysFreeString(bstr), on the world [heap, log, dropLog] of the
\* string helpers: the buffer is released and the call is logged.
SysFreeString(bw, bstr) ==
    [bw EXCEPT !.heap[bstr] = [t |-> "freed", data |-> <<>>],
               !.log = Append(@, bstr)]

\* A plausible slip: the string policy releases nothing.
DropBStr_drop_leaks(ptr, bw) == bw

\* impl PtrDestructor<u16> for DropBStr (bstr.rs): SysFreeString(ptr.as_ptr())
DropBStr_drop(ptr, bw) == SysFreeString(bw, ptr)

\* D::drop(nn), dispatched on the policy type. For the two policies of
\* ptr.rs the call itself is logged in dropLog.
PtrDestructor_drop(D, p, w) ==
    CASE D = "DefaultDestructor" ->
            DefaultDestructor_drop(p, [w EXCEPT !.dropLog[p] = Append(@, D)])
      [] D = "DropDestructor" ->
            DropDestructor_drop(p, [w EXCEPT !.dropLog[p] = Append(@, D)])
      [] D = "SafeArrayDestructor" -> SafeArrayDestructor_drop(p, w)
      [] D = "DropBStr" -> DropBStr_drop(p, w)

\* A plausible slip: inner is copied out and left in place.
Option_take_copy(hd) == hd

\* self.inner.take(): the handle is left holding None.
Option_take(hd) == [hd EXCEPT !.inner = NULL]

\* impl Drop for Ptr: if let Some(nn) = self.inner.take() { D::drop(nn) }
Ptr_Drop(hd, w) ==
    IF hd.inner # NULL THEN PtrDestructor_drop(hd.D, hd.inner, w) ELSE w

Owned(h) == h \in 1..Len(handles) /\ handles[h].owned

\* A plausible slip: a method that empties the handle borrows it.
Moved_borrowed(hd) == hd

\* A method that takes `self` or `mut self` consumes the handle: the caller
\* cannot name it again.
Moved(hd) == [hd EXCEPT !.owned = FALSE]

PtrInit ==
    /\ handles = <<>>
    /\ mem = [p \in RawPointers |-> [state |-> "live", val |-> 0]]
    /\ dropLog = [p \in RawPointers |-> <<>>]
    /\ rawHeld = RawPointers
    /\ lastOp = Op("init", 0, NULL, "DefaultDestructor", 0, FALSE)

\* Ptr::new(p: NonNull<T>)
Ptr_new(p, D) ==
    /\ UNCHANGED <<varVars, arrVars, bstrVars>>
    /\ p \in rawHeld
    /\ Len(handles) < MaxHandles
    /\ handles' = Append(handles, PtrStruct(p, D, "new"))
    /\ rawHeld' = rawHeld \ {p}
    /\ lastOp' = Op("new", 0, p, D, Len(handles) + 1, FALSE)
    /\ UNCHANGED <<mem, dropLog>>

\* A plausible slip: the null check is left out.
NonNull_new_unchecked(p) == [some |-> TRUE, nn |-> p]

\* core::ptr::NonNull::new(p), as with_checked calls it: Some(p) unless p is
\* null.
NonNull_new(p) == [some |-> p # NULL, nn |-> p]

\* Ptr::with_checked(p: *mut T): None for null, else Some(Ptr::new(p))
Ptr_with_checked(p, D) ==
    /\ UNCHANGED <<varVars, arrVars, bstrVars>>
    /\ p \in rawHeld \cup {NULL}
    /\ Len(handles) < MaxHandles
    /\ LET checked == NonNull_new(p)
       IN  IF ~checked.some
             THEN /\ lastOp' = Op("with_checked", 0, p, D, 0, FALSE)
                  /\ UNCHANGED <<handles, rawHeld>>
             ELSE /\ handles' = Append(handles,
                                       PtrStruct(checked.nn, D, "with_checked"))
                  /\ rawHeld' = rawHeld \ {p}
                  /\ lastOp' = Op("with_checked", 0, p, D, Len(handles) + 1, FALSE)
    /\ UNCHANGED <<mem, dropLog>>

\* Ptr::as_ptr(&self)
Ptr_as_ptr(h) ==
    /\ UNCHANGED <<varVars, arrVars, bstrVars>>
    /\ Owned(h)
    /\ lastOp' = Op("as_ptr", h, handles[h].inner, handles[h].D,
                     handles[h].inner, handles[h].inner = NULL)
    /\ UNCHANGED <<handles, mem, dropLog, rawHeld>>

\* Ptr::as_mut(&mut self) followed by a store through the reference; the
\* else branch of the method is unreachable!()
Ptr_as_mut(h, v) ==
    /\ UNCHANGED <<varVars, arrVars, bstrVars>>
    /\ Owned(h)
    /\ LET nn == handles[h].inner
       IN  IF nn = NULL
             THEN /\ lastOp' = Op("as_mut", h, nn, handles[h].D, v, TRUE)
                  /\ UNCHANGED mem
             ELSE /\ mem[nn].state = "live"
                  /\ mem[nn].val # v
                  /\ mem' = [mem EXCEPT ![nn].val = v]
                  /\ lastOp' = Op("as_mut", h, nn, handles[h].D, v, FALSE)
    /\ UNCHANGED <<handles, dropLog, rawHeld>>

\* Ptr::cast<U, Q>(mut self): take the pointer, wrap it under Q; self is
\* dropped when the function returns.
Ptr_cast(h, Q) ==
    /\ UNCHANGED <<varVars, arrVars, bstrVars>>
    /\ Owned(h)
    /\ Len(handles) < MaxHandles
    /\ LET nn    == handles[h].inner
           taken == Option_take(handles[h])
           w     == Ptr_Drop(taken, World)
       IN  /\ mem' = w.mem
           /\ dropLog' = w.dropLog
           /\ IF nn # NULL
                THEN /\ handles' = Append([handles EXCEPT ![h] =
                                             Moved(taken)],
                                          PtrStruct(nn, Q, "cast"))
                     /\ lastOp' = Op("cast", h, nn, Q, Len(handles) + 1, FALSE)
                ELSE /\ handles' = [handles EXCEPT ![h] =
                                      Moved(taken)]
                     /\ lastOp' = Op("cast", h, nn, Q, 0, TRUE)
    /\ UNCHANGED rawHeld

\* impl Into<NonNull<T>> for Ptr<T>: only for the default policy
Ptr_into_NonNull(h) ==
    /\ UNCHANGED <<varVars, arrVars, bstrVars>>
    /\ Owned(h)
    /\ handles[h].D = "DefaultDestructor"
    /\ LET nn    == handles[h].inner
           taken == Option_take(handles[h])
           w     == Ptr_Drop(taken, World)
       IN  /\ mem' = w.mem
           /\ dropLog' = w.dropLog
           /\ handles' = [handles EXCEPT ![h] = Moved(taken)]
           /\ rawHeld' = IF nn # NULL THEN rawHeld \cup {nn} ELSE rawHeld
           /\ lastOp' = Op("into", h, nn, handles[h].D, nn, nn = NULL)

\* The handle goes out of scope: Drop::drop runs on it.
Ptr_drop(h) ==
    /\ UNCHANGED <<varVars, arrVars, bstrVars>>
    /\ Owned(h)
    /\ LET w == Ptr_Drop(handles[h], World)
       IN  /\ mem' = w.mem
           /\ dropLog' = w.dropLog
    /\ handles' = [handles EXCEPT ![h] = Moved(Option_take(@))]
    /\ lastOp' = Op("drop", h, handles[h].inner, handles[h].D, 0, FALSE)
    /\ UNCHANGED rawHeld

PtrNext ==
    \/ \E p \in RawPointers, D \in Destructors : Ptr_new(p, D)
    \/ \E p \in RawPointers \cup {NULL}, D \in Destructors : Ptr_with_checked(p, D)
    \/ \E h \in 1..MaxHandles : Ptr_as_ptr(h)
    \/ \E h \in 1..MaxHandles, v \in 0..MaxVal : Ptr_as_mut(h, v)
    \/ \E h \in 1..MaxHandles, Q \in Destructors : Ptr_cast(h, Q)
    \/ \E h \in 1..MaxHandles : Ptr_into_NonNull(h)
    \/ \E h \in 1..MaxHandles : Ptr_drop(h)


(***************************************************************************)
(* Memory as the foreign side sees it: little-endian bytes                 *)
(***************************************************************************)

RECURSIVE LE(_, _), FromLE(_), SignedLE(_), Zeros(_)

\* The n low bytes of v in two's complement, least significant first.
LE(v, n) == IF n = 0 THEN <<>> ELSE <<v % 256>> \o LE(v \div 256, n - 1)

\* The unsigned integer a little-endian byte string holds.
FromLE(b) == IF b = <<>> THEN 0 ELSE Head(b) + 256 * FromLE(Tail(b))

\* The signed (two's complement) integer a little-endian byte string holds.
SignedLE(b) ==
    IF Len(b) = 1 THEN (IF b[1] >= 128 THEN b[1] - 256 ELSE b[1])
    ELSE Head(b) + 256 * SignedLE(Tail(b))

\* mem::zeroed() of n bytes
Zeros(n) == IF n = 0 THEN <<>> ELSE <<0>> \o Zeros(n - 1)

\* Store bytes b at offset off (first byte is offset 0) of the byte string m.
Store(m, off, b) ==
    [i \in 1..Len(m) |->
        IF i > off /\ i <= off + Len(b) THEN b[i - off] ELSE m[i]]

\* Load n bytes at offset off.
Load(m, off, n) == SubSeq(m, off + 1, off + n)

(***************************************************************************)
(* Value records (variant.rs)                                              *)
(***************************************************************************)

\* Number of foreign interface objects (IUnknown) that exist.
NumIface == 1

\* winapi::shared::wtypes VARENUM tags
VT_EMPTY == 0
VT_NULL == 1
VT_I2 == 2
VT_I4 == 3
VT_BSTR == 8
VT_BOOL == 11
VT_VARIANT == 12
VT_UNKNOWN == 13
VT_DECIMAL == 14
VT_ARRAY == 8192
VT_BYREF == 16384
\* VT_BYREF | VT_I4, VT_BYREF | VT_UNKNOWN, VT_BYREF | VT_BSTR
VT_PI4 == 16387
VT_PUNKNOWN == 16397
VT_PBSTR == 16392

\* VARIANT_TRUE: the 16-bit value -1
VARIANT_TRUE == -1
\* DECIMAL_NEG: the sign byte of a negative DECIMAL
DECIMAL_NEG == 128

\* The VARIANT union: n1 is 24 bytes. Through n2 (__tagVARIANT) it is vt,
\* three reserved words and the 16-byte payload union n3; through decVal it
\* is a 16-byte DECIMAL laid over the same bytes. Each field: <<offset, size>>.
VARIANT_n1 == [size |-> 24, n2 |-> <<0, 24>>, decVal |-> <<0, 16>>]
tagVARIANT == [vt |-> <<0, 2>>, wReserved1 |-> <<2, 2>>, wReserved2 |-> <<4, 2>>,
               wReserved3 |-> <<6, 2>>, n3 |-> <<8, 16>>]
DECIMAL == [wReserved |-> <<0, 2>>, scale |-> <<2, 1>>, sign |-> <<3, 1>>,
            Hi32 |-> <<4, 4>>, Lo64 |-> <<8, 8>>]

\* The kinds with a VariantExt impl that the model covers.
MacroKinds == {"i32", "i16", "bool", "String", "Box_i32", "Ptr_IUnknown",
               "Box_Ptr_IUnknown", "DecWrapper", "Variant_i32", "Box_String"}
VariantKinds == MacroKinds \cup {"VtEmpty", "VtNull"}

\* const VARTYPE of each impl
VARTYPE(K) ==
    CASE K = "i32" -> VT_I4
      [] K = "i16" -> VT_I2
      [] K = "bool" -> VT_BOOL
      [] K = "String" -> VT_BSTR
      [] K = "Box_i32" -> VT_PI4
      [] K = "Ptr_IUnknown" -> VT_UNKNOWN
      [] K = "Box_Ptr_IUnknown" -> VT_PUNKNOWN
      [] K = "DecWrapper" -> VT_DECIMAL
      [] K = "Variant_i32" -> VT_VARIANT
      [] K = "Box_String" -> VT_PBSTR
      [] K = "VtEmpty" -> VT_EMPTY
      [] K = "VtNull" -> VT_NULL

\* $n_name and the size of the union member $un_n of each variant_impl! use
UnionMember(K) ==
    CASE K = "i32" -> [n |-> "n3", size |-> 4]
      [] K = "i16" -> [n |-> "n3", size |-> 2]
      [] K = "bool" -> [n |-> "n3", size |-> 2]
      [] K = "DecWrapper" -> [n |-> "n1", size |-> 16]
      [] OTHER -> [n |-> "n3", size |-> 8]

\* A rust_decimal value: 96-bit mantissa in three limbs, sign, scale.
Dec(lo, mid, hi, negative, scale) ==
    [lo |-> lo, mid |-> mid, hi |-> hi, negative |-> negative, scale |-> scale]

\* The Rust values of each kind that the model draws from. A String is its
\* sequence of Unicode scalar values.
ValuesOf(K) ==
    CASE K = "i32" -> {-1, 0, 1337}
      [] K = "i16" -> {-2, 7}
      [] K = "bool" -> BOOLEAN
      [] K = "String" -> {<<>>, <<97, 0, 98>>, <<128512>>}
      [] K = "Box_i32" -> {139}
      [] K = "Ptr_IUnknown" -> 1..NumIface
      [] K = "Box_Ptr_IUnknown" -> 1..NumIface
      [] K = "DecWrapper" -> {Dec(0, 0, 0, FALSE, 0), Dec(250, 0, 0, FALSE, 2),
                              Dec(3, 1, 65535, TRUE, 3),
                              Dec(2147483647, 256, 16777216, FALSE, 28)}
      [] K = "Variant_i32" -> {1000}
      [] K = "Box_String" -> {<<104, 105>>}
      [] K = "U16String" -> {<<>>, <<104, 0, 105>>}
      [] K = "VariantBool" -> BOOLEAN
      [] OTHER -> {0}

\* ---- heap objects ----
Obj(t, data) == [t |-> t, data |-> data]
Valid(heap, p, t) == p \in 1..Len(heap) /\ heap[p].t = t

\* ---- results ----
NoErr == [e |-> "none", expected |-> 0, found |-> 0]
FromVariantError_VarTypeDoesNotMatch(expected, found) ==
    [e |-> "VarTypeDoesNotMatch", expected |-> expected, found |-> found]
FromVariantError_VariantPtrNull == [e |-> "VariantPtrNull", expected |-> 0, found |-> 0]
FromVariantError_UnknownPtrNull == [e |-> "UnknownPtrNull", expected |-> 0, found |-> 0]
\* BStringError::AllocateFailed{len}
BStringError_AllocateFailed(len) ==
    [e |-> "AllocateFailed", expected |-> len, found |-> 0]
\* IntoVariantError::AllocBStrFailed(Box<BStringError>): the length stays
\* inside the boxed error.
IntoVariantError_AllocBStrFailed(len) ==
    [e |-> "AllocBStrFailed", expected |-> len, found |-> 0]
\* impl From<BStringError> for IntoVariantError
IntoVariantError_from(bse) == IntoVariantError_AllocBStrFailed(bse.expected)

\* What a conversion produced: tag is "Ok", "Err", "Panic" (a Rust panic,
\* which unwinds) or "Crash" (the process died on a wild access); val is
\* wrapped as <<v>> so that values of different kinds sit in one field.
Outcome(tag, val, err) ==
    [tag |-> tag, val |-> val, err |-> err, clears |-> <<>>, read |-> FALSE]
Ok(v) == Outcome("Ok", <<v>>, NoErr)
Err(e) == Outcome("Err", <<>>, e)
Panic == Outcome("Panic", <<>>, NoErr)

\* A read through a pointer that does not point at an object of the type
\* read is undefined: the process may die, or the read may yield any value.
Undefined(K) == {Outcome("Crash", <<>>, NoErr)} \cup {Ok(v) : v \in ValuesOf(K)}


\* ---- UTF-16 (widestring) ----
RECURSIVE U16String_from_str(_), U16String_to_string_lossy(_)

\* U16String::from_str: scalar values above the BMP become surrogate pairs.
U16String_from_str(chars) ==
    IF chars = <<>> THEN <<>>
    ELSE LET c == Head(chars)
         IN  (IF c < 65536 THEN <<c>>
              ELSE <<55296 + ((c - 65536) \div 1024), 56320 + ((c - 65536) % 1024)>>)
             \o U16String_from_str(Tail(chars))

\* U16String::to_string_lossy: pairs are joined, a lone surrogate is U+FFFD.
U16String_to_string_lossy(units) ==
    IF units = <<>> THEN <<>>
    ELSE LET u == Head(units)
             IsHigh(x) == x >= 55296 /\ x <= 56319
             IsLow(x) == x >= 56320 /\ x <= 57343
         IN  IF IsHigh(u) /\ Len(units) >= 2 /\ IsLow(units[2])
               THEN <<65536 + (u - 55296) * 1024 + (units[2] - 56320)>>
                    \o U16String_to_string_lossy(Tail(Tail(units)))
             ELSE IF IsHigh(u) \/ IsLow(u)
               THEN <<65533>> \o U16String_to_string_lossy(Tail(units))
             ELSE <<u>> \o U16String_to_string_lossy(Tail(units))

\* The String reader: from_bstr, then to_string_lossy on the units read.
String_from_bstr(o) ==
    IF o.tag = "Ok" THEN [o EXCEPT !.val = <<U16String_to_string_lossy(o.val[1])>>]
    ELSE o

\* ---- types.rs conversions used by the codec ----
\* A plausible slip: true as the C truth value 1.
VARIANT_BOOL_from_one(b) == IF b THEN 1 ELSE 0

\* impl From<VariantBool> for VARIANT_BOOL
VARIANT_BOOL_from(b) == IF b THEN VARIANT_TRUE ELSE 0
\* impl From<VARIANT_BOOL> for VariantBool: VariantBool(vb < 0)
VariantBool_from(vb) == vb < 0

\* A plausible slip: Hi32 taken from the low limb, Lo64 from the two above.
build_c_decimal_limbs_swapped(d) ==
    LET serial == <<0, 0, d.scale, IF d.negative THEN 128 ELSE 0>>
                    \o LE(d.lo, 4) \o LE(d.mid, 4) \o LE(d.hi, 4)
        sign   == IF ~d.negative THEN 0 ELSE DECIMAL_NEG
    IN  LE(0, 2) \o <<d.scale % 256>> \o <<sign>> \o Load(serial, 4, 4) \o Load(serial, 8, 8)

\* DecWrapper::build_c_decimal: the DECIMAL bytes of a Decimal. serialize()
\* gives flags (4 bytes), lo, mid, hi; Lo64 is bytes 4..11, Hi32 bytes 12..15.
build_c_decimal(d) ==
    LET serial == <<0, 0, d.scale, IF d.negative THEN 128 ELSE 0>>
                    \o LE(d.lo, 4) \o LE(d.mid, 4) \o LE(d.hi, 4)
        lo64   == Load(serial, 4, 8)
        hi32   == Load(serial, 12, 4)
        sign   == IF ~d.negative THEN 0 ELSE DECIMAL_NEG
    IN  LE(0, 2) \o <<d.scale % 256>> \o <<sign>> \o hi32 \o lo64

\* DecWrapper::build_rust_decimal: Decimal::from_parts(Lo64 & 0xFFFFFFFF,
\* Lo64 >> 32, Hi32, sign == DECIMAL_NEG, scale)
build_rust_decimal(b) ==
    LET lo64 == Load(b, DECIMAL.Lo64[1], DECIMAL.Lo64[2])
    IN  Dec(FromLE(Load(lo64, 0, 4)), FromLE(Load(lo64, 4, 4)),
            FromLE(Load(b, DECIMAL.Hi32[1], DECIMAL.Hi32[2])),
            Load(b, DECIMAL.sign[1], 1)[1] = DECIMAL_NEG,
            Load(b, DECIMAL.scale[1], 1)[1])

\* ---- reading and writing a record ----

\* The address a pointer-sized field holds. Heap addresses are small; any
\* other bit pattern is an address at which no object lives.
PtrOf(b) ==
    IF \A i \in 3..Len(b) : b[i] = 0
      THEN FromLE(SubSeq(b, 1, 2))
      ELSE 65536 + FromLE(SubSeq(b, 1, 2))

Field(bytes, f) == Load(bytes, f[1], f[2])

\* (*var).n1.n2().vt
vt_of(heap, var) == FromLE(Field(heap[var].data, tagVARIANT.vt))

Cleared(o, var) == [o EXCEPT !.clears = Append(@, var)]
Reads(o) == [o EXCEPT !.read = TRUE]

\* oleauto VariantClear on the record at var: a BSTR payload is freed and the
\* record becomes VT_EMPTY.
VariantClear(heap, var) ==
    LET n1   == heap[var].data
        bstr == PtrOf(Load(n1, tagVARIANT.n3[1], 8))
        h1   == IF FromLE(Field(n1, tagVARIANT.vt)) = VT_BSTR /\ Valid(heap, bstr, "BSTR")
                  THEN [heap EXCEPT ![bstr] = Obj("freed", <<>>)]
                  ELSE heap
    IN  [h1 EXCEPT ![var].data = Store(n1, tagVARIANT.vt[1], LE(VT_EMPTY, 2))]

RECURSIVE VariantClearAll(_, _)
VariantClearAll(heap, ps) ==
    IF ps = <<>> THEN heap ELSE VariantClearAll(VariantClear(heap, Head(ps)), Tail(ps))

\* oleauto SysAllocStringLen(rw, sz): a new BSTR with the first sz units at
\* rw and sz as its length prefix, or null when the allocator fails.
SysAllocStringLen(rw, sz, heap, alloc_ok) ==
    IF alloc_ok
      THEN [heap |-> Append(heap, Obj("BSTR", SubSeq(rw, 1, sz))), bstr |-> Len(heap) + 1]
      ELSE [heap |-> heap, bstr |-> NULL]

\* A plausible slip: the length is found by scanning for a zero unit.
SysStringLen_scans(heap, bstr) ==
    LET buf == heap[bstr].data
    IN  IF \E i \in 1..Len(buf) : buf[i] = 0
          THEN (CHOOSE i \in 1..Len(buf) :
                   buf[i] = 0 /\ \A j \in 1..(i - 1) : buf[j] # 0) - 1
          ELSE Len(buf)

\* oleauto SysStringLen(bstr): the length prefix of the BSTR.
SysStringLen(heap, bstr) == Len(heap[bstr].data)

\* widestring U16String::from_ptr(p, len): a copy of len units at p.
U16String_from_ptr(heap, p, len) == SubSeq(heap[p].data, 1, len)

\* U16String::allocate_bstr (bstr.rs): SysAllocStringLen(rw, self.len()); a
\* null return is AllocateFailed{len}.
allocate_bstr(units, heap, alloc_ok) ==
    LET sz   == Len(units)
        bstr == SysAllocStringLen(units, sz, heap, alloc_ok)
    IN  IF NonNull_new(bstr.bstr).some
          THEN [heap |-> bstr.heap, tag |-> "Ok", bytes |-> LE(bstr.bstr, 8), err |-> NoErr]
          ELSE [heap |-> bstr.heap, tag |-> "Err", bytes |-> <<>>,
                err |-> BStringError_AllocateFailed(sz)]

\* U16String::from_bstr (bstr.rs): asserts the pointer is non-null, then
\* copies SysStringLen units.
from_bstr(heap, bstr) ==
    IF bstr = NULL THEN {Panic}
    ELSE IF Valid(heap, bstr, "BSTR")
      THEN {Ok(U16String_from_ptr(heap, bstr, SysStringLen(heap, bstr)))}
    ELSE Undefined("U16String")

\* Box::into_raw(Box::new(bytes))
Box_into_raw(bytes, heap) ==
    [heap |-> Append(heap, Obj("box", bytes)), tag |-> "Ok",
     bytes |-> LE(Len(heap) + 1, 8), err |-> NoErr]

Plain(bytes, heap) == [heap |-> heap, tag |-> "Ok", bytes |-> bytes, err |-> NoErr]

RECURSIVE variant_impl_into_variant(_, _, _, _), variant_impl_from_variant(_, _, _)

\* impl<T: VariantExt> Variant<T>: the inherent into_variant. It encodes the
\* inner value and wraps a pointer to that record in a VT_VARIANT record.
Variant_into_variant(T, v, heap, alloc_ok) ==
    LET inner == variant_impl_into_variant(T, v, heap, alloc_ok)
        n3    == Store(Zeros(16), 0, LE(inner.ptr, 8))
        tv    == LE(VT_VARIANT, 2) \o LE(0, 2) \o LE(0, 2) \o LE(0, 2) \o n3
        n1    == Store(Zeros(VARIANT_n1.size), VARIANT_n1.n2[1], tv)
    IN  IF inner.tag # "Ok" THEN inner
        ELSE [heap |-> Append(inner.heap, Obj("VARIANT", n1)), tag |-> "Ok",
              ptr |-> Len(inner.heap) + 1, err |-> NoErr]

\* The `into` closure of each variant_impl! use: the value of the union
\* member, as bytes.
variant_impl_into(K, v, heap, alloc_ok) ==
    CASE K = "i32" -> Plain(LE(v, 4), heap)
      [] K = "i16" -> Plain(LE(v, 2), heap)
      [] K = "bool" -> Plain(LE(VARIANT_BOOL_from(v), 2), heap)
      [] K = "String" ->
            LET bstr == allocate_bstr(U16String_from_str(v), heap, alloc_ok)
            IN  IF bstr.tag = "Ok" THEN bstr
                ELSE [bstr EXCEPT !.err = IntoVariantError_from(bstr.err)]
      [] K = "Box_i32" -> Box_into_raw(LE(v, 4), heap)
      [] K = "Ptr_IUnknown" -> Plain(LE(v, 8), heap)
      [] K = "Box_Ptr_IUnknown" -> Box_into_raw(LE(v, 8), heap)
      [] K = "DecWrapper" -> Plain(build_c_decimal(v), heap)
      [] K = "Variant_i32" ->
            LET pvar == Variant_into_variant("i32", v, heap, alloc_ok)
            IN  IF pvar.tag = "Ok"
                  THEN [heap |-> pvar.heap, tag |-> "Ok", bytes |-> LE(pvar.ptr, 8),
                        err |-> NoErr]
                  ELSE [heap |-> pvar.heap, tag |-> "Panic", bytes |-> <<>>, err |-> NoErr]
      [] K = "Box_String" ->
            LET bstr == allocate_bstr(U16String_from_str(v), heap, alloc_ok)
            IN  IF bstr.tag = "Ok" THEN Box_into_raw(bstr.bytes, bstr.heap)
                ELSE [heap |-> bstr.heap, tag |-> "Panic", bytes |-> <<>>, err |-> NoErr]

\* The tagged view written last: vt, three zero reserved words, n3.
tagVARIANT_bytes(vt, n3) == LE(vt, 2) \o LE(0, 2) \o LE(0, 2) \o LE(0, 2) \o n3

\* variant_impl!: into_variant. n3 and n1 start zeroed; the closure's value
\* is written into its member of n3 or of n1; then the whole tagged view n2
\* of n1 is assigned, and the record is boxed.
variant_impl_into_variant(K, v, heap, alloc_ok) ==
    LET w   == variant_impl_into(K, v, heap, alloc_ok)
        m   == UnionMember(K)
        n3  == IF m.n = "n3" /\ w.tag = "Ok" THEN Store(Zeros(16), 0, w.bytes) ELSE Zeros(16)
        n1w == IF m.n = "n1" /\ w.tag = "Ok"
                 THEN Store(Zeros(VARIANT_n1.size), VARIANT_n1.decVal[1], w.bytes)
                 ELSE Zeros(VARIANT_n1.size)
        n1  == Store(n1w, VARIANT_n1.n2[1], tagVARIANT_bytes(VARTYPE(K), n3))
    IN  IF w.tag # "Ok"
          THEN [heap |-> w.heap, tag |-> w.tag, ptr |-> NULL, err |-> w.err]
          ELSE [heap |-> Append(w.heap, Obj("VARIANT", n1)), tag |-> "Ok",
                ptr |-> Len(w.heap) + 1, err |-> NoErr]

\* VtEmpty::into_variant and VtNull::into_variant: the tag and nothing else.
VtEmpty_into_variant(K, heap) ==
    LET n1 == Store(Zeros(VARIANT_n1.size), VARIANT_n1.n2[1],
                    tagVARIANT_bytes(VARTYPE(K), Zeros(16)))
    IN  [heap |-> Append(heap, Obj("VARIANT", n1)), tag |-> "Ok",
         ptr |-> Len(heap) + 1, err |-> NoErr]

\* VariantExt::into_variant of kind K
into_variant(K, v, heap, alloc_ok) ==
    IF K \in {"VtEmpty", "VtNull"} THEN VtEmpty_into_variant(K, heap)
    ELSE variant_impl_into_variant(K, v, heap, alloc_ok)

\* impl<T: VariantExt> Variant<T>: the inherent from_variant. The guard _var_d
\* stays armed; no tag is looked at; pvarVal is read and decoded as T, and a
\* decode error is unwrapped.
Variant_from_variant(T, heap, var) ==
    LET n_ptr == PtrOf(Load(heap[var].data, tagVARIANT.n3[1], 8))
        unwrap(o) == IF o.tag = "Err" THEN [Panic EXCEPT !.clears = o.clears] ELSE o
    IN  IF ~Valid(heap, var, "VARIANT") THEN {Reads(o) : o \in Undefined(T)}
        ELSE IF n_ptr = NULL
          THEN {Cleared(Reads(Err(FromVariantError_VariantPtrNull)), var)}
        ELSE IF ~Valid(heap, n_ptr, "VARIANT")
          THEN {IF o.tag = "Crash" THEN Reads(o) ELSE Cleared(Reads(o), var)
                   : o \in Undefined(T)}
        ELSE {IF o.tag = "Crash" THEN Reads(o) ELSE Cleared(Reads(unwrap(o)), var)
                   : o \in variant_impl_from_variant(T, heap, n_ptr)}

\* The `from` closure of each variant_impl! use, applied to the union member
\* of the copied n1.
variant_impl_from(K, heap, n1) ==
    LET n3 == Field(n1, tagVARIANT.n3)
        p  == PtrOf(Load(n3, 0, 8))
    IN  CASE K = "i32" -> {Ok(SignedLE(Load(n3, 0, 4)))}
          [] K = "i16" -> {Ok(SignedLE(Load(n3, 0, 2)))}
          [] K = "bool" -> {Ok(VariantBool_from(SignedLE(Load(n3, 0, 2))))}
          [] K = "String" ->
                {String_from_bstr(o) : o \in from_bstr(heap, p)}
          [] K = "Box_i32" ->
                IF Valid(heap, p, "box") THEN {Ok(SignedLE(Load(heap[p].data, 0, 4)))}
                ELSE Undefined(K)
          [] K = "Ptr_IUnknown" -> IF p = NULL THEN {Panic} ELSE {Ok(p)}
          [] K = "Box_Ptr_IUnknown" ->
                IF ~Valid(heap, p, "box") THEN Undefined(K)
                ELSE IF PtrOf(Load(heap[p].data, 0, 8)) = NULL
                  THEN {Err(FromVariantError_UnknownPtrNull)}
                ELSE {Ok(PtrOf(Load(heap[p].data, 0, 8)))}
          [] K = "DecWrapper" -> {Ok(build_rust_decimal(Field(n1, VARIANT_n1.decVal)))}
          [] K = "Variant_i32" ->
                IF p = NULL THEN {Err(FromVariantError_VariantPtrNull)}
                ELSE Variant_from_variant("i32", heap, p)
          [] K = "Box_String" ->
                IF ~Valid(heap, p, "box") THEN Undefined(K)
                ELSE {String_from_bstr(o)
                         : o \in from_bstr(heap, PtrOf(Load(heap[p].data, 0, 8)))}

\* variant_impl!: from_variant. The guard var_d is armed on entry; a tag
\* other than VARTYPE returns the mismatch with the guard armed; otherwise the
\* member is read and converted, the guard is disarmed, and the result
\* returned. A panic in the closure unwinds through the armed guard.
variant_impl_from_variant(K, heap, var) ==
    LET n1 == heap[var].data
        vt == FromLE(Field(n1, tagVARIANT.vt))
    IN  IF vt # VARTYPE(K)
          THEN {Cleared(Err(FromVariantError_VarTypeDoesNotMatch(VARTYPE(K), vt)), var)}
          ELSE {IF o.tag = "Panic" THEN Cleared(Reads(o), var) ELSE Reads(o)
                   : o \in variant_impl_from(K, heap, n1)}

\* VtEmpty::from_variant and VtNull::from_variant: a guard and Ok.
VtEmpty_from_variant(K, heap, var) == {Cleared(Ok(0), var)}

\* VariantExt::from_variant of kind K
from_variant(K, heap, var) ==
    IF K \in {"VtEmpty", "VtNull"} THEN VtEmpty_from_variant(K, heap, var)
    ELSE variant_impl_from_variant(K, heap, var)

\* ---- the codec as a state machine ----
\* A caller encodes a value (or receives a record from foreign code), then
\* decodes the record as some kind, then lets go of everything.

NoOutcome == Outcome("none", <<>>, NoErr)

InitialHeap == [i \in 1..NumIface |-> Obj("IUnknown", <<>>)]

\* Records as foreign code hands them over: null object references (for the
\* by-reference form, a cell holding null and a null pointer to the cell), a
\* null by-reference pointer, a nested record whose child is a VT_I2 record,
\* and a DECIMAL, which the foreign side lays over the record with vt in the
\* place of DECIMAL's wReserved.
ForeignShapes == {"unk_null", "punk_null", "ppunk_null", "var_null", "var_i2",
                  "bstr_null", "pi4_null", "decimal"}

ForeignTag(shape) ==
    CASE shape = "unk_null" -> VT_UNKNOWN
      [] shape = "punk_null" -> VT_PUNKNOWN
      [] shape = "ppunk_null" -> VT_PUNKNOWN
      [] shape = "var_null" -> VT_VARIANT
      [] shape = "var_i2" -> VT_VARIANT
      [] shape = "bstr_null" -> VT_BSTR
      [] shape = "pi4_null" -> VT_PI4
      [] shape = "decimal" -> VT_DECIMAL

ForeignValues(shape) ==
    CASE shape = "decimal" -> ValuesOf("DecWrapper")
      [] shape = "var_i2" -> ValuesOf("i16")
      [] OTHER -> {0}

ForeignRecord(shape, v, heap) ==
    LET cell == Len(heap) + 1
        n3   == IF shape \in {"punk_null", "var_i2"}
                  THEN Store(Zeros(16), 0, LE(cell, 8))
                  ELSE Zeros(16)
        n1   == IF shape = "decimal"
                  THEN Store(Store(Zeros(VARIANT_n1.size), VARIANT_n1.decVal[1],
                                   build_c_decimal(v)),
                             tagVARIANT.vt[1], LE(VT_DECIMAL, 2))
                  ELSE tagVARIANT_bytes(ForeignTag(shape), n3)
        h1   == CASE shape = "punk_null" -> Append(heap, Obj("box", LE(NULL, 8)))
                  [] shape = "var_i2" ->
                        Append(heap, Obj("VARIANT",
                                         tagVARIANT_bytes(VT_I2, Store(Zeros(16), 0, LE(v, 2)))))
                  [] OTHER -> heap
    IN  [heap |-> Append(h1, Obj("VARIANT", n1)), ptr |-> Len(h1) + 1]


VarInit ==
    /\ vheap = InitialHeap
    /\ vphase = "idle"
    /\ vrec = NULL
    /\ vsrc = [K |-> "none", val |-> <<>>, by |-> "none", vt |-> 0]
    /\ vres = [K |-> "none", via |-> "none", out |-> NoOutcome]
    /\ vlog = <<>>

Encoded(r, src) ==
    /\ vheap' = r.heap
    /\ vrec' = r.ptr
    /\ vsrc' = [src EXCEPT !.vt = vt_of(r.heap, r.ptr)]
    /\ vphase' = "encoded"
    /\ UNCHANGED <<vres, vlog>>

EncodeFailed(r, src) ==
    /\ vheap' = r.heap
    /\ vres' = [K |-> src.K, via |-> "into_variant",
                out |-> IF r.tag = "Panic" THEN Panic ELSE Err(r.err)]
    /\ vsrc' = src
    /\ vphase' = "failed"
    /\ UNCHANGED <<vrec, vlog>>

\* K::into_variant(v) through the VariantExt trait
IntoVariant(K, v, alloc_ok) ==
    /\ UNCHANGED <<ptrVars, arrVars, bstrVars>>
    /\ vphase = "idle"
    /\ LET r == into_variant(K, v, vheap, alloc_ok)
       IN  IF r.tag = "Ok" THEN Encoded(r, [K |-> K, val |-> <<v>>, by |-> "into_variant", vt |-> 0])
           ELSE EncodeFailed(r, [K |-> K, val |-> <<v>>, by |-> "into_variant", vt |-> 0])

\* Variant::new(v).into_variant(): method resolution picks the inherent fn
VariantNewIntoVariant(v) ==
    /\ UNCHANGED <<ptrVars, arrVars, bstrVars>>
    /\ vphase = "idle"
    /\ Encoded(Variant_into_variant("i32", v, vheap, TRUE),
               [K |-> "Variant_i32", val |-> <<v>>, by |-> "Variant::into_variant", vt |-> 0])

\* A record arrives from foreign code
ForeignVariant(shape, v) ==
    /\ UNCHANGED <<ptrVars, arrVars, bstrVars>>
    /\ vphase = "idle"
    /\ LET r == ForeignRecord(shape, v, vheap)
       IN  Encoded(r, [K |-> shape, by |-> "foreign", vt |-> 0,
                           val |-> IF shape \in {"decimal", "var_i2"} THEN <<v>> ELSE <<>>])

Decoded(K, via, o) ==
    /\ vres' = [K |-> K, via |-> via, out |-> o]
    /\ vlog' = vlog \o o.clears
    /\ vheap' = VariantClearAll(vheap, o.clears)
    /\ vphase' = "decoded"
    /\ UNCHANGED <<vrec, vsrc>>

\* B::from_variant(record) through the VariantExt trait
FromVariant(B) ==
    /\ UNCHANGED <<ptrVars, arrVars, bstrVars>>
    /\ vphase = "encoded"
    /\ \E o \in from_variant(B, vheap, vrec) : Decoded(B, "from_variant", o)

\* Variant::<i32>::from_variant(record): the inherent fn
VariantFromVariant ==
    /\ UNCHANGED <<ptrVars, arrVars, bstrVars>>
    /\ vphase = "encoded"
    /\ \E o \in Variant_from_variant("i32", vheap, vrec) :
          Decoded("Variant_i32", "Variant::from_variant", o)

\* The caller lets go of the result and starts over.
VarRelease ==
    /\ UNCHANGED <<ptrVars, arrVars, bstrVars>>
    /\ vphase \in {"decoded", "failed"}
    /\ vheap' = InitialHeap
    /\ vphase' = "idle"
    /\ vrec' = NULL
    /\ vsrc' = [K |-> "none", val |-> <<>>, by |-> "none", vt |-> 0]
    /\ vres' = [K |-> "none", via |-> "none", out |-> NoOutcome]
    /\ vlog' = <<>>

VarNext ==
    \/ \E K \in VariantKinds : \E v \in ValuesOf(K), alloc_ok \in BOOLEAN :
          IntoVariant(K, v, alloc_ok)
    \/ \E v \in ValuesOf("Variant_i32") : VariantNewIntoVariant(v)
    \/ \E shape \in ForeignShapes : \E v \in ForeignValues(shape) : ForeignVariant(shape, v)
    \/ \E B \in VariantKinds : FromVariant(B)
    \/ VariantFromVariant
    \/ VarRelease


(***************************************************************************)
(* Wide strings (bstr.rs)                                                  *)
(***************************************************************************)

\* Longest string allocated, in code units.
MaxUnits == 3

\* The code-unit sequences strings are allocated from: every sequence of up
\* to MaxUnits units over a zero unit and a non-zero one.
BStrUnits == UNION {[1..n -> {0, 97}] : n \in 0..MaxUnits}

\* A Ptr<u16, D> as a value
Ptr_u16(p, D) == [inner |-> p, D |-> D]

\* What an allocation returns to the caller: a raw BSTR, a Ptr<u16> or a
\* DroppableBString (whose inner is None when hd.inner = NULL).
Holding(kind, hd) == [kind |-> kind, inner |-> hd.inner, D |-> hd.D]
NoHolding == Holding("none", Ptr_u16(NULL, "DefaultDestructor"))


\* The heap and the log of frees, as the policies of ptr.rs see them.
BStrWorld(heap, log) ==
    [heap |-> heap, log |-> log, dropLog |-> [p \in 1..Len(heap) |-> <<>>]]

\* Ptr::cast<U, Q>(mut self) as a function: the pointer moves to a Ptr under
\* Q, and self is dropped holding None.
Ptr_cast_value(hd, Q, bw) ==
    [ptr |-> Ptr_u16(hd.inner, Q), bw |-> Ptr_Drop(Option_take(hd), bw)]

\* U16String::consume_to_bstr: the same calls as allocate_bstr.
consume_to_bstr(units, heap, alloc_ok) ==
    LET sz   == Len(units)
        bstr == SysAllocStringLen(units, sz, heap, alloc_ok)
    IN  IF NonNull_new(bstr.bstr).some
          THEN [heap |-> bstr.heap, tag |-> "Ok", bytes |-> LE(bstr.bstr, 8), err |-> NoErr]
          ELSE [heap |-> bstr.heap, tag |-> "Err", bytes |-> <<>>,
                err |-> BStringError_AllocateFailed(sz)]

\* Ok(DroppableBString{ inner: Some(r?.cast()) }) for the result r of
\* allocate_bstr or consume_to_bstr
DroppableBString_new(r) ==
    IF r.tag = "Ok"
      THEN [tag |-> "Ok",
            own |-> Holding("DroppableBString",
                            Ptr_cast_value(Ptr_u16(PtrOf(r.bytes), "DefaultDestructor"),
                                           "DropBStr", BStrWorld(r.heap, <<>>)).ptr),
            err |-> NoErr, heap |-> r.heap]
      ELSE [tag |-> "Err", own |-> NoHolding, err |-> r.err, heap |-> r.heap]

\* U16String::allocate_managed_bstr / consume_to_managed_bstr
allocate_managed_bstr(units, heap, alloc_ok) ==
    DroppableBString_new(allocate_bstr(units, heap, alloc_ok))
consume_to_managed_bstr(units, heap, alloc_ok) ==
    DroppableBString_new(consume_to_bstr(units, heap, alloc_ok))

\* The error types a BStringError is converted into by the TryConvert impls
\* for BSTR: IntoVariantError (by `?`), SafeArrayError (an element error at
\* index 0), ElementError.
BSTR_try_convert_err(E, bse) ==
    CASE E = "IntoVariantError" -> IntoVariantError_from(bse)
      [] E = "SafeArrayError" ->
            [e |-> "ElementConversionFailed", expected |-> bse.expected, found |-> 0]
      [] E = "ElementError" ->
            [e |-> "BStringFailed", expected |-> bse.expected, found |-> 0]

\* impl TryConvert<U16String, E> for BSTR: u.clone().allocate_bstr(), the
\* pointer taken out with as_ptr(), the error converted.
BSTR_try_convert(E, u, heap, alloc_ok) ==
    LET r == allocate_bstr(u, heap, alloc_ok)
    IN  IF r.tag = "Ok"
          THEN [tag |-> "Ok", err |-> NoErr, heap |-> r.heap,
                own |-> Holding("raw", Ptr_u16(PtrOf(r.bytes), "DefaultDestructor"))]
          ELSE [tag |-> "Err", own |-> NoHolding, err |-> BSTR_try_convert_err(E, r.err), heap |-> r.heap]

Allocate(path, units, heap, alloc_ok) ==
    LET asPtr(r) == IF r.tag = "Ok"
                      THEN [tag |-> "Ok", err |-> NoErr, heap |-> r.heap,
                            own |-> Holding("Ptr", Ptr_u16(PtrOf(r.bytes), "DefaultDestructor"))]
                      ELSE [tag |-> "Err", own |-> NoHolding, err |-> r.err, heap |-> r.heap]
    IN  CASE path = "allocate_bstr" -> asPtr(allocate_bstr(units, heap, alloc_ok))
          [] path = "consume_to_bstr" -> asPtr(consume_to_bstr(units, heap, alloc_ok))
          [] path = "allocate_managed_bstr" -> allocate_managed_bstr(units, heap, alloc_ok)
          [] path = "consume_to_managed_bstr" -> consume_to_managed_bstr(units, heap, alloc_ok)
          [] path = "BSTR::try_convert<IntoVariantError>" ->
                BSTR_try_convert("IntoVariantError", units, heap, alloc_ok)
          [] path = "BSTR::try_convert<SafeArrayError>" ->
                BSTR_try_convert("SafeArrayError", units, heap, alloc_ok)
          [] path = "BSTR::try_convert<ElementError>" ->
                BSTR_try_convert("ElementError", units, heap, alloc_ok)

\* U16String::from_pbstr(bstr: Ptr<u16>): from_bstr(bstr.as_ptr())
from_pbstr(heap, hd) == from_bstr(heap, hd.inner)

\* impl TryConvert<BSTR, E> for U16String, E = FromVariantError or
\* ElementError: assert!(!p.is_null()), then Ok(from_bstr(p))
U16String_try_convert(heap, p) ==
    IF p = NULL THEN {Panic} ELSE from_bstr(heap, p)

\* The paths that read a wide string
ReadPaths == {"from_bstr", "from_pbstr", "U16String::try_convert<FromVariantError>",
              "U16String::try_convert<ElementError>"}

\* A plausible slip: consume reads inner without taking it.
DroppableBString_consume_peek(own, bw) ==
    [ret |-> own.inner, own |-> own, bw |-> bw]

\* DroppableBString::consume: the pointer is taken out of inner, cast to a
\* Ptr<u16> of the default policy, read with as_ptr(); that Ptr is dropped
\* on return. An empty inner gives null.
DroppableBString_consume(own, bw) ==
    LET taken == Option_take(own)
        c     == Ptr_cast_value(Ptr_u16(own.inner, "DropBStr"), "DefaultDestructor", bw)
    IN  IF own.inner # NULL
          THEN [ret |-> c.ptr.inner, own |-> Holding(own.kind, taken),
                bw |-> Ptr_Drop(c.ptr, c.bw)]
          ELSE [ret |-> NULL, own |-> Holding(own.kind, taken), bw |-> bw]

\* U16String::deallocate_bstr(bstr: Ptr<u16>): SysFreeString(bstr.as_ptr()),
\* then the Ptr is dropped.
deallocate_bstr(hd, bw) == Ptr_Drop(hd, SysFreeString(bw, hd.inner))

\* ---- the string helpers as a state machine ----
\* A caller allocates a string (or receives a BSTR from foreign code), reads
\* it, consumes or drops what it holds, then starts over.


BStrInit ==
    /\ bheap = <<>>
    /\ bphase = "idle"
    /\ bown = NoHolding
    /\ bsrc = [units |-> <<>>, by |-> "none", bstr |-> NULL]
    /\ bres = [op |-> "none", out |-> NoOutcome]
    /\ blog = <<>>

\* One of the allocating functions is called on a U16String of the units
BStrAllocate(path, units, alloc_ok) ==
    /\ UNCHANGED <<ptrVars, varVars, arrVars>>
    /\ bphase = "idle"
    /\ LET r == Allocate(path, units, bheap, alloc_ok)
       IN  /\ bheap' = r.heap
           /\ bown' = r.own
           /\ bsrc' = [units |-> units, by |-> path, bstr |-> r.own.inner]
           /\ bres' = [op |-> path, out |-> IF r.tag = "Ok" THEN Ok(r.own.inner) ELSE Err(r.err)]
           /\ bphase' = IF r.tag = "Ok" THEN "held" ELSE "failed"
    /\ UNCHANGED blog

\* Foreign code hands over a BSTR it allocated, or a null pointer
BStrForeign(units, null) ==
    /\ UNCHANGED <<ptrVars, varVars, arrVars>>
    /\ bphase = "idle"
    /\ LET bstr == SysAllocStringLen(units, Len(units), bheap, ~null)
       IN  /\ bheap' = bstr.heap
           /\ bown' = Holding("raw", Ptr_u16(bstr.bstr, "DefaultDestructor"))
           /\ bsrc' = [units |-> IF null THEN <<>> ELSE units, by |-> "foreign", bstr |-> bstr.bstr]
    /\ bphase' = "held"
    /\ UNCHANGED <<bres, blog>>

\* One of the reading functions is called on the pointer held; from_pbstr
\* takes the Ptr<u16> by value, the others the raw pointer (of a Ptr:
\* as_ptr()).
BStrRead(path) ==
    /\ UNCHANGED <<ptrVars, varVars, arrVars>>
    /\ bphase = "held"
    /\ bres.op \notin ReadPaths
    /\ bown.kind \in (IF path = "from_pbstr" THEN {"Ptr"} ELSE {"Ptr", "raw"})
    /\ \E o \in (CASE path = "from_bstr" -> from_bstr(bheap, bown.inner)
                   [] path = "from_pbstr" -> from_pbstr(bheap, bown)
                   [] OTHER -> U16String_try_convert(bheap, bown.inner)) :
          bres' = [op |-> path, out |-> o]
    /\ bown' = IF path = "from_pbstr" THEN [bown EXCEPT !.kind = "moved"] ELSE bown
    /\ UNCHANGED <<bheap, bphase, bsrc, blog>>

\* DroppableBString::consume
BStrConsume ==
    /\ UNCHANGED <<ptrVars, varVars, arrVars>>
    /\ bphase = "held"
    /\ bown.kind = "DroppableBString"
    /\ LET c == DroppableBString_consume(bown, BStrWorld(bheap, blog))
       IN  /\ bres' = [op |-> "consume", out |-> Ok(c.ret)]
           /\ bown' = c.own
           /\ bheap' = c.bw.heap
           /\ blog' = c.bw.log
    /\ UNCHANGED <<bphase, bsrc>>

\* The DroppableBString or the Ptr<u16> held goes out of scope
BStrDrop ==
    /\ UNCHANGED <<ptrVars, varVars, arrVars>>
    /\ bphase = "held"
    /\ bown.kind \in {"DroppableBString", "Ptr"}
    /\ LET bw == Ptr_Drop(bown, BStrWorld(bheap, blog))
       IN  /\ bheap' = bw.heap
           /\ blog' = bw.log
    /\ bown' = [Option_take(bown) EXCEPT !.kind = "moved"]
    /\ bphase' = "dropped"
    /\ UNCHANGED <<bsrc, bres>>

\* U16String::deallocate_bstr on the Ptr<u16> held
BStrDeallocate ==
    /\ UNCHANGED <<ptrVars, varVars, arrVars>>
    /\ bphase = "held"
    /\ bown.kind = "Ptr"
    /\ LET bw == deallocate_bstr(bown, BStrWorld(bheap, blog))
       IN  /\ bheap' = bw.heap
           /\ blog' = bw.log
    /\ bown' = [bown EXCEPT !.kind = "moved"]
    /\ bphase' = "dropped"
    /\ UNCHANGED <<bsrc, bres>>

\* The caller lets go of everything and starts over.
BStrRelease ==
    /\ UNCHANGED <<ptrVars, varVars, arrVars>>
    /\ bphase # "idle"
    /\ bheap' = <<>>
    /\ bphase' = "idle"
    /\ bown' = NoHolding
    /\ bsrc' = [units |-> <<>>, by |-> "none", bstr |-> NULL]
    /\ bres' = [op |-> "none", out |-> NoOutcome]
    /\ blog' = <<>>

BStrNext ==
    \/ \E path \in {"allocate_bstr", "consume_to_bstr", "allocate_managed_bstr",
                     "consume_to_managed_bstr", "BSTR::try_convert<IntoVariantError>",
                     "BSTR::try_convert<SafeArrayError>", "BSTR::try_convert<ElementError>"},
          units \in BStrUnits, alloc_ok \in BOOLEAN :
          BStrAllocate(path, units, alloc_ok)
    \/ \E units \in BStrUnits, null \in BOOLEAN : BStrForeign(units, null)
    \/ \E path \in ReadPaths : BStrRead(path)
    \/ BStrConsume
    \/ BStrDrop
    \/ BStrDeallocate
    \/ BStrRelease
(***************************************************************************)
(* Array records (array.rs)                                                *)
(***************************************************************************)

\* Longest sequence converted.
MaxLen == 2
\* Largest dimension count of a foreign array record.
MaxDims == 2

\* The element kinds the model covers.
ElemKinds == {"i16", "VariantBool", "U16String", "Ptr_IUnknown"}

\* A plausible variation: strings declared as elements of nested records.
SFTYPE_strings_nested(K) ==
    CASE K = "i16" -> VT_I2
      [] K = "VariantBool" -> VT_BOOL
      [] K = "U16String" -> VT_VARIANT
      [] K = "Ptr_IUnknown" -> VT_UNKNOWN

\* const SFTYPE of each SafeArrayElement impl
SFTYPE(K) ==
    CASE K = "i16" -> VT_I2
      [] K = "VariantBool" -> VT_BOOL
      [] K = "U16String" -> VT_BSTR
      [] K = "Ptr_IUnknown" -> VT_UNKNOWN

\* size_of::<Element>() of each impl: the array's slot size
ElementSize(K) == IF K \in {"i16", "VariantBool"} THEN 2 ELSE 8

SeqsOf(K) == UNION {[1..n -> ValuesOf(K)] : n \in 0..MaxLen}

\* HRESULTs other than S_OK that a platform call may return.
FailHr == {-1, 1}

\* One platform call made to fail: f names the function, ix the element
\* index it fails at (0 for calls that take none).
NoFault == [f |-> "none", ix |-> 0, hr |-> 0]
Fault(f, ix, hr) == [f |-> f, ix |-> ix, hr |-> hr]
Fails(fault, f, ix) == fault.f = f /\ fault.ix = ix

\* ---- the platform's array functions (OleAut32) ----
\* pw is the platform's world: [sa, heap, log].
NoArray == [cDims |-> 0, lLbound |-> 0, cElements |-> 0, vt |-> 0, data |-> <<>>,
            destroyed |-> 0]

\* SAFEARRAYBOUND { cElements: c_elements, lLbound: 1 }
SAFEARRAYBOUND_from_one(c_elements) == [cElements |-> c_elements, lLbound |-> 1]

\* SAFEARRAYBOUND { cElements: c_elements, lLbound: 0i32 }
SAFEARRAYBOUND(c_elements) == [cElements |-> c_elements, lLbound |-> 0]

\* SafeArrayCreate(vt, cDims, rgsabound): a new record of zeroed slots, or
\* null when the platform is out of memory.
SafeArrayCreate(pw, vt, cDims, sab, slot, fault) ==
    LET logged == Logged(pw, Call("SafeArrayCreate", 0, 0))
    IN  IF Fails(fault, "SafeArrayCreate", 0) THEN [psa |-> NULL, pw |-> logged]
        ELSE [psa |-> 1,
              pw |-> [logged EXCEPT !.sa =
                        [cDims |-> cDims, lLbound |-> sab.lLbound,
                         cElements |-> sab.cElements, vt |-> vt,
                         data |-> [i \in 1..sab.cElements |-> Zeros(slot)],
                         destroyed |-> 0]]]

\* SafeArrayGetDim(psa)
SafeArrayGetDim(pw) ==
    [dims |-> pw.sa.cDims, pw |-> Logged(pw, Call("SafeArrayGetDim", 0, 0))]

\* SafeArrayGetVartype(psa, &mut vt)
SafeArrayGetVartype(pw, fault) ==
    LET logged == Logged(pw, Call("SafeArrayGetVartype", 0, 0))
    IN  IF Fails(fault, "SafeArrayGetVartype", 0)
          THEN [hr |-> fault.hr, vt |-> 0, pw |-> logged]
          ELSE [hr |-> 0, vt |-> pw.sa.vt, pw |-> logged]

\* SafeArrayGetLBound(psa, 1, &mut l_bound)
SafeArrayGetLBound(pw, fault) ==
    LET logged == Logged(pw, Call("SafeArrayGetLBound", 0, 0))
    IN  IF Fails(fault, "SafeArrayGetLBound", 0)
          THEN [hr |-> fault.hr, bound |-> 0, pw |-> logged]
          ELSE [hr |-> 0, bound |-> pw.sa.lLbound, pw |-> logged]

\* SafeArrayGetUBound(psa, 1, &mut r_bound)
SafeArrayGetUBound(pw, fault) ==
    LET logged == Logged(pw, Call("SafeArrayGetUBound", 0, 0))
    IN  IF Fails(fault, "SafeArrayGetUBound", 0)
          THEN [hr |-> fault.hr, bound |-> 0, pw |-> logged]
          ELSE [hr |-> 0, bound |-> pw.sa.lLbound + pw.sa.cElements - 1, pw |-> logged]

\* SafeArrayPutElement(psa, &ix, pv): the slot receives a copy of the data;
\* of a BSTR the platform stores a copy of the string.
SafeArrayPutElement(pw, ix, bytes, item, fault) ==
    LET logged == Logged(pw, Call("SafeArrayPutElement", ix, item))
        at     == ix - pw.sa.lLbound + 1
        bstr   == PtrOf(bytes)
        copy   == Len(pw.heap) + 1
    IN  IF Fails(fault, "SafeArrayPutElement", ix) \/ at \notin 1..pw.sa.cElements
          THEN [hr |-> IF Fails(fault, "SafeArrayPutElement", ix) THEN fault.hr ELSE -1,
                pw |-> logged]
        ELSE IF pw.sa.vt = VT_BSTR /\ Valid(pw.heap, bstr, "BSTR")
          THEN [hr |-> 0,
                pw |-> [logged EXCEPT !.heap = Append(@, Obj("BSTR", pw.heap[bstr].data)),
                                      !.sa.data[at] = LE(copy, 8)]]
        ELSE [hr |-> 0, pw |-> [logged EXCEPT !.sa.data[at] = bytes]]

\* SafeArrayGetElement(psa, &ix, pv): pv receives a copy of the slot; of a
\* BSTR the caller receives a copy of the string.
SafeArrayGetElement(pw, ix, fault) ==
    LET logged == Logged(pw, Call("SafeArrayGetElement", ix, 0))
        at     == ix - pw.sa.lLbound + 1
        bstr   == PtrOf(pw.sa.data[at])
        copy   == Len(pw.heap) + 1
    IN  IF Fails(fault, "SafeArrayGetElement", ix) \/ at \notin 1..pw.sa.cElements
          THEN [hr |-> IF Fails(fault, "SafeArrayGetElement", ix) THEN fault.hr ELSE -1,
                bytes |-> <<>>, pw |-> logged]
        ELSE IF pw.sa.vt = VT_BSTR /\ Valid(pw.heap, bstr, "BSTR")
          THEN [hr |-> 0, bytes |-> LE(copy, 8),
                pw |-> [logged EXCEPT !.heap = Append(@, Obj("BSTR", pw.heap[bstr].data))]]
        ELSE [hr |-> 0, bytes |-> pw.sa.data[at], pw |-> logged]

\* ---- errors (errors.rs) ----
ArrErr(e, index, elem, hr, expected, found, sa_dims) ==
    [e |-> e, index |-> index, elem |-> elem, hr |-> hr, expected |-> expected,
     found |-> found, sa_dims |-> sa_dims]
NoArrErr == ArrErr("none", <<>>, "none", 0, 0, 0, 0)

\* An ElementError: its variant and the HRESULT or length it carries.
ElementError(elem, hr) == [elem |-> elem, hr |-> hr]

\* A plausible slip: the index is not passed on.
from_element_err_index_lost(ee, index) ==
    ArrErr("ElementConversionFailed", LE(0, 8), ee.elem, ee.hr, 0, 0, 0)

\* FromSafeArrayError::from_element_err / IntoSafeArrayError::from_element_err:
\* index is a usize, kept as its 8 bytes.
from_element_err(ee, index) ==
    ArrErr("ElementConversionFailed", index, ee.elem, ee.hr, 0, 0, 0)
FromSafeArrayError_VarTypeDoesNotMatch(expected, found) ==
    ArrErr("VarTypeDoesNotMatch", <<>>, "none", 0, expected, found, 0)
FromSafeArrayError_SafeArrayDimsInvalid(sa_dims) ==
    ArrErr("SafeArrayDimsInvalid", <<>>, "none", 0, 0, 0, sa_dims)

\* A plausible slip: the HRESULT is not stored.
FromSafeArrayError_hr_dropped(e, hr) == ArrErr(e, <<>>, "none", 0, 0, 0, 0)

\* FromSafeArrayError::{SafeArrayGetVartypeFailed, SafeArrayLBoundFailed,
\* SafeArrayRBoundFailed} { hr }
FromSafeArrayError_hr(e, hr) == ArrErr(e, <<>>, "none", hr, 0, 0, 0)

ArrResult(tag, val, err, pw) == [tag |-> tag, val |-> val, err |-> err, pw |-> pw]

\* ---- one element ----

\* Element::try_convert(self): the Rust value as the bytes of its slot.
\* U16String allocates a BSTR, which may fail.
Element_try_convert(K, v, pw, ix, fault) ==
    CASE K = "i16" -> Plain(LE(v, 2), pw.heap)
      [] K = "VariantBool" -> Plain(LE(VARIANT_BOOL_from(v), 2), pw.heap)
      [] K = "U16String" ->
            allocate_bstr(v, pw.heap, ~Fails(fault, "SysAllocStringLen", ix))
      [] K = "Ptr_IUnknown" -> Plain(LE(v, 8), pw.heap)

\* SafeArrayElement::into_safearray(self, psa, ix), with the overrides of
\* U16String and Ptr<IUnknown>: convert, then SafeArrayPutElement.
Element_into_safearray(K, v, pw, ix, item, fault) ==
    LET slf == Element_try_convert(K, v, pw, ix, fault)
        put == SafeArrayPutElement([pw EXCEPT !.heap = slf.heap], ix, slf.bytes, item, fault)
    IN  IF slf.tag = "Err"
          THEN [tag |-> "Err", err |-> ElementError("BStringFailed", slf.err.expected),
                pw |-> pw]
        ELSE IF put.hr = 0 THEN [tag |-> "Ok", err |-> ElementError("none", 0), pw |-> put.pw]
        ELSE [tag |-> "Err", err |-> ElementError("PutElementFailed", put.hr), pw |-> put.pw]

\* Where the staging value def_val of Ptr<IUnknown>::from_safearray lives: in
\* the frame of that call, at no address of the heap.
def_val_addr == 65536

\* SafeArrayElement::from_safearray(psa, ix): SafeArrayGetElement into the
\* zeroed staging value def_val; the default impl returns def_val, the impl
\* for Ptr<IUnknown> returns &mut def_val.
Element_from_safearray(K, pw, ix, fault) ==
    LET got == SafeArrayGetElement(pw, ix, fault)
    IN  IF got.hr # 0
          THEN [tag |-> "Err", bytes |-> <<>>,
                err |-> ElementError("GetElementFailed", got.hr), pw |-> got.pw]
        ELSE [tag |-> "Ok", err |-> ElementError("none", 0), pw |-> got.pw,
              bytes |-> IF K = "Ptr_IUnknown" THEN LE(def_val_addr, 8) ELSE got.bytes]

\* TryConvert<*mut IUnknown, ElementError> for Ptr<IUnknown>: the pointer is
\* wrapped as it is.
Ptr_IUnknown_try_convert(bytes) == {Ok(PtrOf(bytes))}

\* Item::try_convert(val): the staging value as the Rust value. For
\* U16String (bstr.rs) an assert on null, then from_bstr.
Item_try_convert(K, bytes, heap) ==
    CASE K = "i16" -> {Ok(SignedLE(bytes))}
      [] K = "VariantBool" -> {Ok(VariantBool_from(SignedLE(bytes)))}
      [] K = "U16String" ->
            U16String_try_convert(heap, PtrOf(bytes))
      [] K = "Ptr_IUnknown" -> Ptr_IUnknown_try_convert(bytes)

\* ---- whole arrays ----

RECURSIVE into_safearray_loop(_, _, _, _, _), from_safearray_loop(_, _, _, _, _, _)

\* for (ix, elem) in self.enumerate(): item number `item` of the iterator
\* (counted from 1) is written at index ix = item - 1; the first failure
\* returns from_element_err(e, ix).
into_safearray_loop(K, seq, item, pw, fault) ==
    IF item > Len(seq) THEN ArrResult("Ok", <<>>, NoArrErr, pw)
    ELSE LET ix == item - 1
             w  == Element_into_safearray(K, seq[item], pw, ix, item, fault)
         IN  IF w.tag = "Err"
               THEN ArrResult("Err", <<>>, from_element_err(w.err, LE(ix, 8)), w.pw)
               ELSE into_safearray_loop(K, seq, item + 1, w.pw, fault)

\* Ptr::with_checked(psa).unwrap() as Ptr<SAFEARRAY, SafeArrayDestructor>
psa_guard(psa) == [inner |-> psa, D |-> "SafeArrayDestructor"]

\* SafeArrayExt::into_safearray. The array is created with one dimension
\* from the bound {len, 0}; psa guards it while the elements are written;
\* an element error returns with psa dropped; on success psa.cast() hands
\* the array to a Ptr of the default policy.
into_safearray(K, seq, pw, fault) ==
    LET c_elements == Len(seq)
        vartype    == SFTYPE(K)
        sab        == SAFEARRAYBOUND(c_elements)
        created    == SafeArrayCreate(pw, vartype, 1, sab, ElementSize(K), fault)
        psa        == psa_guard(created.psa)
        r          == into_safearray_loop(K, seq, 1, created.pw, fault)
    IN  IF created.psa = NULL THEN ArrResult("Panic", <<>>, NoArrErr, created.pw)
        ELSE IF r.tag = "Err" THEN [r EXCEPT !.pw = Ptr_Drop(psa, r.pw)]
        ELSE [r EXCEPT !.pw = Ptr_Drop(Option_take(psa), r.pw)]

\* for ix in l_bound..=r_bound: read the element, convert it, push it; the
\* first failure returns from_element_err(e, ix as usize).
from_safearray_loop(K, pw, ix, r_bound, vc, fault) ==
    IF ix > r_bound THEN {ArrResult("Ok", vc, NoArrErr, pw)}
    ELSE LET got == Element_from_safearray(K, pw, ix, fault)
         IN  IF got.tag = "Err"
               THEN {ArrResult("Err", <<>>, from_element_err(got.err, LE(ix, 8)), got.pw)}
               ELSE UNION {
                      IF v.tag = "Ok"
                        THEN from_safearray_loop(K, got.pw, ix + 1, r_bound,
                                                 Append(vc, v.val[1]), fault)
                        ELSE {ArrResult(v.tag, <<>>, NoArrErr, got.pw)}
                      : v \in Item_try_convert(K, got.bytes, got.pw.heap)}

\* A plausible slip: the element kind is not compared.
vartype_differs_never(vt, K) == FALSE

\* vt as u32 != Itr::Item::SFTYPE
vartype_differs(vt, K) == vt # SFTYPE(K)

\* SafeArrayExt::from_safearray, up to the point where psa is dropped. The
\* platform calls are made in the order GetDim, GetVartype, GetLBound,
\* GetUBound, each only when the checks before it passed.
from_safearray_body(K, pw, fault) ==
    LET dim     == SafeArrayGetDim(pw)
        sa_dims == dim.dims
        vt      == SafeArrayGetVartype(dim.pw, fault)
        l_bound == SafeArrayGetLBound(vt.pw, fault)
        r_bound == SafeArrayGetUBound(l_bound.pw, fault)
    IN  IF ~(sa_dims > 0) THEN {ArrResult("Panic", <<>>, NoArrErr, dim.pw)}
        ELSE IF vt.hr # 0
          THEN {ArrResult("Err", <<>>,
                          FromSafeArrayError_hr("SafeArrayGetVartypeFailed", vt.hr), vt.pw)}
        ELSE IF vartype_differs(vt.vt, K)
          THEN {ArrResult("Err", <<>>,
                          FromSafeArrayError_VarTypeDoesNotMatch(SFTYPE(K), vt.vt), vt.pw)}
        ELSE IF sa_dims = 1
          THEN IF l_bound.hr # 0
                 THEN {ArrResult("Err", <<>>,
                                 FromSafeArrayError_hr("SafeArrayLBoundFailed", l_bound.hr),
                                 l_bound.pw)}
               ELSE IF r_bound.hr # 0
                 THEN {ArrResult("Err", <<>>,
                                 FromSafeArrayError_hr("SafeArrayRBoundFailed", r_bound.hr),
                                 r_bound.pw)}
               ELSE from_safearray_loop(K, r_bound.pw, l_bound.bound, r_bound.bound,
                                        <<>>, fault)
        ELSE {ArrResult("Err", <<>>, FromSafeArrayError_SafeArrayDimsInvalid(sa_dims), vt.pw)}

\* SafeArrayExt::from_safearray: psa.cast() makes the array the property of
\* a Ptr<SAFEARRAY, SafeArrayDestructor>, which is dropped on every way out,
\* an unwinding panic included.
from_safearray(K, pw, fault) ==
    LET psa == psa_guard(1)
    IN  {IF r.tag = "Crash" THEN r ELSE [r EXCEPT !.pw = Ptr_Drop(psa, r.pw)]
            : r \in from_safearray_body(K, pw, fault)}


\* ---- arrays inside value records (variant.rs) ----

\* oleauto VariantClear on a record whose payload is the array: when the
\* VT_ARRAY bit of vt is set the array is freed.
VariantClear_parray(vt, pw) ==
    LET logged == Logged(pw, Call("VariantClear", 0, 0))
    IN  IF (vt \div VT_ARRAY) % 2 = 1 THEN SafeArrayDestroy(logged) ELSE logged

\* A plausible slip: the guard clears the record although it was disarmed.
VariantDestructor_drop_armed(inner, vt, pw) == VariantClear_parray(vt, pw)

\* Drop for VariantDestructor: nothing when inner is null, else VariantClear.
VariantDestructor_drop(inner, vt, pw) ==
    IF inner = NULL THEN pw ELSE VariantClear_parray(vt, pw)

\* variant_impl! into_variant for Vec<T>: the pointer into_safearray returns
\* becomes the parray of a record with vt = VT_ARRAY.
Vec_into_variant(K, seq, pw, fault) ==
    LET record(r) == [r EXCEPT !.val = IF r.tag = "Ok" THEN <<VT_ARRAY>> ELSE <<>>]
    IN  record(into_safearray(K, seq, pw, fault))

\* variant_impl! from_variant for Vec<T> on the record var with discriminant
\* vt. The guard var_d is dropped armed on the mismatch return and when the
\* closure unwinds; after the closure returned it is disarmed, whatever the
\* closure returned.
Vec_from_variant(K, var, vt, pw, fault) ==
    IF vt # VT_ARRAY
      THEN {ArrResult("Err", <<>>,
                      ArrErr("FromVariantError_VarTypeDoesNotMatch", <<>>, "none", 0,
                             VT_ARRAY, vt, 0),
                      VariantDestructor_drop(var, vt, pw))}
      ELSE {IF r.tag = "Crash" THEN r
            ELSE [r EXCEPT !.pw = VariantDestructor_drop(
                                     IF r.tag = "Panic" THEN var ELSE NULL, vt, r.pw)]
              : r \in from_safearray(K, pw, fault)}
\* ---- the array codec as a state machine ----
\* A caller converts a sequence into an array (or receives an array from
\* foreign code), then converts the array back as some element kind, then
\* lets go of everything.

PlatformWorld == [sa |-> sa, heap |-> aheap, log |-> alog]

ArrOutcome(op, K, fault, r) ==
    [op |-> op, K |-> K, fault |-> fault, tag |-> r.tag, val |-> r.val, err |-> r.err]

ArrInit ==
    /\ sa = NoArray
    /\ aheap = InitialHeap
    /\ aphase = "idle"
    /\ asrc = [K |-> "none", seq |-> <<>>, by |-> "none", vt |-> 0]
    /\ ares = ArrOutcome("none", "none", NoFault, ArrResult("none", <<>>, NoArrErr, <<>>))
    /\ alog = <<>>

\* The platform calls into_safearray may see fail on a sequence.
IntoFaults(seq) ==
    {NoFault, Fault("SafeArrayCreate", 0, 0)}
      \cup {Fault("SafeArrayPutElement", ix, hr) : ix \in 0..Len(seq) - 1, hr \in FailHr}
      \cup {Fault("SysAllocStringLen", ix, 0) : ix \in 0..Len(seq) - 1}

\* The platform calls from_safearray may see fail.
FromFaults ==
    {NoFault}
      \cup {Fault(f, 0, hr) : f \in {"SafeArrayGetVartype", "SafeArrayGetLBound",
                                     "SafeArrayGetUBound"}, hr \in FailHr}
      \cup {Fault("SafeArrayGetElement", ix, hr) : ix \in -1..MaxLen, hr \in FailHr}

\* seq.into_iter().into_safearray()
IntoSafeArray(K, seq, fault) ==
    /\ UNCHANGED <<ptrVars, varVars, bstrVars>>
    /\ aphase = "idle"
    /\ \E r \in {into_safearray(K, seq, PlatformWorld, fault)} :
          /\ sa' = r.pw.sa
          /\ aheap' = r.pw.heap
          /\ alog' = r.pw.log
          /\ asrc' = [K |-> K, seq |-> seq, by |-> "into_safearray", vt |-> 0]
          /\ ares' = ArrOutcome("into_safearray", K, fault, r)
          /\ aphase' = IF r.tag = "Ok" THEN "built" ELSE "failed"

\* Foreign code fills its array: slot by slot, each with the native form of
\* the element.
RECURSIVE ForeignFill(_, _, _, _)
ForeignFill(K, seq, item, pw) ==
    IF item > Len(seq) THEN pw
    ELSE LET slot == Element_try_convert(K, seq[item], pw, 0, NoFault)
         IN  ForeignFill(K, seq, item + 1,
                         [pw EXCEPT !.heap = slot.heap, !.sa.data[item] = slot.bytes])

\* An array arrives from foreign code: dims dimensions, the first with lower
\* bound lbound and the elements of seq.
ForeignArray(K, seq, dims, lbound) ==
    /\ UNCHANGED <<ptrVars, varVars, bstrVars>>
    /\ aphase = "idle"
    /\ LET empty == SafeArrayCreate(PlatformWorld, SFTYPE(K), dims,
                                    [cElements |-> Len(seq), lLbound |-> lbound],
                                    ElementSize(K), NoFault)
           pw    == ForeignFill(K, seq, 1, empty.pw)
       IN  /\ sa' = pw.sa
           /\ aheap' = pw.heap
           /\ asrc' = [K |-> K, seq |-> seq, by |-> "foreign", vt |-> 0]
           /\ aphase' = "built"
           /\ UNCHANGED <<ares, alog>>

\* seq.into_variant(): the array inside a value record
VecIntoVariant(K, seq, fault) ==
    /\ UNCHANGED <<ptrVars, varVars, bstrVars>>
    /\ aphase = "idle"
    /\ \E r \in {Vec_into_variant(K, seq, PlatformWorld, fault)} :
          /\ sa' = r.pw.sa
          /\ aheap' = r.pw.heap
          /\ alog' = r.pw.log
          /\ asrc' = [K |-> K, seq |-> seq, by |-> "into_variant",
                      vt |-> IF r.tag = "Ok" THEN r.val[1] ELSE 0]
          /\ ares' = ArrOutcome("into_variant", K, fault, [r EXCEPT !.val = <<>>])
          /\ aphase' = IF r.tag = "Ok" THEN "built" ELSE "failed"

\* A value record arrives from foreign code with a one-dimensional array as
\* its payload and the discriminant VT_ARRAY | the element kind.
ForeignArrayVariant(K, seq) ==
    /\ UNCHANGED <<ptrVars, varVars, bstrVars>>
    /\ aphase = "idle"
    /\ LET empty == SafeArrayCreate(PlatformWorld, SFTYPE(K), 1, SAFEARRAYBOUND(Len(seq)),
                                    ElementSize(K), NoFault)
           pw    == ForeignFill(K, seq, 1, empty.pw)
       IN  /\ sa' = pw.sa
           /\ aheap' = pw.heap
           /\ asrc' = [K |-> K, seq |-> seq, by |-> "foreign", vt |-> VT_ARRAY + SFTYPE(K)]
           /\ aphase' = "built"
           /\ UNCHANGED <<ares, alog>>

\* Vec::<K>::from_variant(record). The record is object 1 of the caller.
VecFromVariant(K, fault) ==
    /\ UNCHANGED <<ptrVars, varVars, bstrVars>>
    /\ aphase = "built"
    /\ asrc.vt # 0
    /\ \E r \in Vec_from_variant(K, 1, asrc.vt, PlatformWorld, fault) :
          /\ sa' = r.pw.sa
          /\ aheap' = r.pw.heap
          /\ alog' = r.pw.log
          /\ ares' = ArrOutcome("Vec::from_variant", K, fault, r)
          /\ aphase' = "decoded"
          /\ UNCHANGED asrc

\* IntoIter::<K>::from_safearray(psa)
FromSafeArray(K, fault) ==
    /\ UNCHANGED <<ptrVars, varVars, bstrVars>>
    /\ aphase = "built"
    /\ asrc.vt = 0
    /\ \E r \in from_safearray(K, PlatformWorld, fault) :
          /\ sa' = r.pw.sa
          /\ aheap' = r.pw.heap
          /\ alog' = r.pw.log
          /\ ares' = ArrOutcome("from_safearray", K, fault, r)
          /\ aphase' = "decoded"
          /\ UNCHANGED asrc

\* The caller lets go of the result and starts over.
ArrRelease ==
    /\ UNCHANGED <<ptrVars, varVars, bstrVars>>
    /\ aphase \in {"decoded", "failed"}
    /\ sa' = NoArray
    /\ aheap' = InitialHeap
    /\ aphase' = "idle"
    /\ asrc' = [K |-> "none", seq |-> <<>>, by |-> "none", vt |-> 0]
    /\ ares' = ArrOutcome("none", "none", NoFault, ArrResult("none", <<>>, NoArrErr, <<>>))
    /\ alog' = <<>>

ArrNext ==
    \/ \E K \in ElemKinds : \E seq \in SeqsOf(K) : \E fault \in IntoFaults(seq) :
          IntoSafeArray(K, seq, fault)
    \/ \E K \in ElemKinds : \E seq \in SeqsOf(K) : \E dims \in 0..MaxDims, lbound \in -1..1 :
          ForeignArray(K, seq, dims, lbound)
    \/ \E K \in ElemKinds, fault \in FromFaults : FromSafeArray(K, fault)
    \/ \E K \in ElemKinds : \E seq \in SeqsOf(K) : \E fault \in IntoFaults(seq) :
          VecIntoVariant(K, seq, fault)
    \/ \E K \in ElemKinds : \E seq \in SeqsOf(K) : ForeignArrayVariant(K, seq)
    \/ \E K \in ElemKinds :
          \E fault \in (IF asrc.vt = VT_ARRAY THEN FromFaults ELSE {NoFault}) :
             VecFromVariant(K, fault)
    \/ ArrRelease

(***************************************************************************)
(* Specifications                                                          *)
(***************************************************************************)

Init == PtrInit /\ VarInit /\ ArrInit /\ BStrInit

SpecPtr == Init /\ [][PtrNext]_vars

SpecVariant == Init /\ [][VarNext]_vars

SpecArray == Init /\ [][ArrNext]_vars
SpecBStr == Init /\ [][BStrNext]_vars
(***************************************************************************)
(* Claims about the owning pointer                                         *)
(***************************************************************************)

C10_DefaultDropLeavesPointee ==
    [][(lastOp'.op = "drop" /\ Owned(lastOp'.h) /\ lastOp'.D = "DefaultDestructor")
          => (mem' = mem /\ \A p \in RawPointers :
                               mem[p].state = "live" => mem'[p].state = "live")]_vars

\* C10 witness: a default-policy handle over a pointee that was written to
\* has been dropped, and the pointee is live with the written value.
C10_Witness ==
    /\ lastOp.op = "drop"
    /\ lastOp.D = "DefaultDestructor"
    /\ lastOp.p # NULL
    /\ mem[lastOp.p] = [state |-> "live", val |-> 1]

(***************************************************************************)
(* Claims about the value-record codec                                     *)
(***************************************************************************)

\* The record at vrec has K's tag and zero reserved words.
TaggedAs(K) ==
    LET n1 == vheap[vrec].data
    IN  /\ FromLE(Field(n1, tagVARIANT.vt)) = VARTYPE(K)
        /\ Field(n1, tagVARIANT.wReserved1) = LE(0, 2)
        /\ Field(n1, tagVARIANT.wReserved2) = LE(0, 2)
        /\ Field(n1, tagVARIANT.wReserved3) = LE(0, 2)

\* C1: for every kind K of the variant_impl macro and every value v of K,
\* the record into_variant(v) returns carries K's VARTYPE with zero reserved
\* words, and from_variant requested as K on that record returns Ok(v).
C1_RoundTrip ==
    (vsrc.by = "into_variant" /\ vsrc.K \in MacroKinds) =>
        /\ vphase = "encoded" => TaggedAs(vsrc.K)
        /\ (vphase = "decoded" /\ vres.via = "from_variant" /\ vres.K = vsrc.K) =>
              (vres.out.tag = "Ok" /\ vres.out.val = vsrc.val)

\* C2: from_variant requested as B on a record whose tag is that of another
\* kind A returns the mismatch error with expected = B's tag and found = A's
\* tag, and has neither read nor converted the payload. B is any VariantExt
\* type, VtEmpty, VtNull and the nested value (either from_variant) included.
C2_MismatchLaw ==
    (vphase = "decoded" /\ vsrc.vt # VARTYPE(vres.K)) =>
        /\ vres.out.tag = "Err"
        /\ vres.out.err = FromVariantError_VarTypeDoesNotMatch(VARTYPE(vres.K), vsrc.vt)
        /\ ~vres.out.read

\* How many times VariantClear ran on the record at p.
ClearCount(p) == Cardinality({i \in 1..Len(vlog) : vlog[i] = p})

\* C8: a record allocated by into_variant and passed to from_variant has
\* VariantClear invoked on it exactly once whenever from_variant returns:
\* with Ok, with the mismatch error, or with a conversion error.
C8_ReleasedExactlyOnce ==
    (vphase = "decoded" /\ vsrc.by = "into_variant" /\ vres.via = "from_variant"
        /\ vres.out.tag \in {"Ok", "Err"}) =>
        ClearCount(vrec) = 1

(***************************************************************************)
(* Claims about the array codec                                            *)
(***************************************************************************)

CallsOf(f) == SelectSeq(alog, LAMBDA c : c.f = f)

\* The Rust value the native slot bytes stand for, read off the layout.
SlotHolds(K, bytes, v) ==
    CASE K = "i16" -> SignedLE(bytes) = v
      [] K = "VariantBool" -> SignedLE(bytes) = (IF v THEN VARIANT_TRUE ELSE 0)
      [] K = "U16String" -> Valid(aheap, PtrOf(bytes), "BSTR") /\ aheap[PtrOf(bytes)].data = v
      [] K = "Ptr_IUnknown" -> PtrOf(bytes) = v

\* C3: for every element kind K and every sequence seq of K, length 0
\* included, from_safearray(into_safearray(seq)) returns Ok of a sequence of
\* the same length with the same elements in the same order; for length 0 no
\* element is read.
C3_ArrayRoundTrip ==
    (aphase = "decoded" /\ asrc.by = "into_safearray" /\ ares.K = asrc.K
        /\ ares.fault = NoFault) =>
        /\ ares.tag = "Ok"
        /\ ares.val = asrc.seq
        /\ Len(asrc.seq) = 0 => CallsOf("SafeArrayGetElement") = <<>>

\* C4: into_safearray on N elements of kind K creates an array of exactly one
\* dimension, lower bound 0, upper bound N-1 and element kind SFTYPE(K), and
\* writes element number i of the iterator at index i, for i in 0..N-1.
C4_IntoSafeArrayShape ==
    (aphase = "built" /\ asrc.by = "into_safearray") =>
        LET N == Len(asrc.seq)
        IN  /\ sa.cDims = 1
            /\ sa.lLbound = 0
            /\ sa.lLbound + sa.cElements - 1 = N - 1
            /\ sa.vt = SFTYPE(asrc.K)
            /\ CallsOf("SafeArrayPutElement")
                 = [i \in 1..N |-> Call("SafeArrayPutElement", i - 1, i)]
            /\ \A i \in 0..N - 1 : SlotHolds(asrc.K, sa.data[i + 1], asrc.seq[i + 1])

C4_Witness ==
    /\ aphase = "built"
    /\ asrc.by = "into_safearray"
    /\ asrc.K = "U16String"
    /\ Len(asrc.seq) = MaxLen
    /\ asrc.seq[1] # asrc.seq[2]

\* C5: from_safearray on an array record whose dimension count is not 1,
\* whatever its element kind, returns SafeArrayDimsInvalid carrying that
\* count; it neither panics nor returns another error.
C5_DimsInvalid ==
    (aphase = "decoded" /\ sa.cDims # 1 /\ ares.fault = NoFault) =>
        /\ ares.tag = "Err"
        /\ ares.err = FromSafeArrayError_SafeArrayDimsInvalid(sa.cDims)

\* C6: from_safearray requested with element kind K on a one-dimensional
\* array whose element kind K' is not K returns VarTypeDoesNotMatch with
\* expected = K's tag and found = K''s tag, and reads no element. (A value
\* record whose discriminant is not VT_ARRAY never reaches from_safearray.)
C6_KindMismatch ==
    (aphase = "decoded" /\ sa.cDims = 1 /\ ares.fault.f # "SafeArrayGetVartype"
        /\ asrc.vt \in {0, VT_ARRAY}
        /\ sa.vt # SFTYPE(ares.K)) =>
        /\ ares.tag = "Err"
        /\ ares.err = FromSafeArrayError_VarTypeDoesNotMatch(SFTYPE(ares.K), sa.vt)
        /\ CallsOf("SafeArrayGetElement") = <<>>

C6_Witness ==
    /\ aphase = "decoded"
    /\ sa.cDims = 1
    /\ sa.cElements = MaxLen
    /\ sa.vt = VT_BSTR
    /\ ares.K = "i16"
    /\ ares.err.e = "VarTypeDoesNotMatch"

\* C7: when writing or reading element i of an N-element array fails,
\* into_safearray / from_safearray return the error with SafeArrayDestroy
\* invoked on the array exactly once: no leak, no second destroy.
C7_ElementFailureDestroysOnce ==
    (aphase \in {"failed", "decoded"} /\ ares.tag = "Err"
        /\ ares.err.e = "ElementConversionFailed") =>
        /\ Len(CallsOf("SafeArrayDestroy")) = 1
        /\ sa.destroyed = 1

C7_Witness ==
    /\ aphase = "decoded"
    /\ ares.op = "from_safearray"
    /\ ares.err.e = "ElementConversionFailed"
    /\ ares.err.elem = "GetElementFailed"
    /\ ares.err.index = LE(1, 8)
    /\ sa.cElements = MaxLen
    /\ sa.destroyed = 1


\* C11: Ptr::with_checked(p) returns None exactly when p is null; otherwise
\* it returns a handle that holds p, and as_ptr() on that handle gives p.
C11_WithCheckedNoneIffNull ==
    /\ lastOp.op = "with_checked" =>
          /\ (lastOp.ret = 0) <=> (lastOp.p = NULL)
          /\ lastOp.ret # 0 => handles[lastOp.ret].inner = lastOp.p
    /\ (lastOp.op = "as_ptr" /\ handles[lastOp.h].origin = "with_checked") =>
          /\ ~lastOp.panic
          /\ lastOp.ret = handles[lastOp.h].raw

\* C11 witness: as_ptr() was called on a handle that with_checked returned
\* for a non-null pointer, and gave that pointer.
C11_Witness ==
    /\ lastOp.op = "as_ptr"
    /\ handles[lastOp.h].origin = "with_checked"
    /\ lastOp.ret # NULL
    /\ lastOp.ret = handles[lastOp.h].raw

\* C28: every handle the caller can still name holds a pointer (inner is
\* Some), so no call of as_ptr, as_mut, cast or the conversion into NonNull
\* enters its unreachable!() branch; the handles emptied by cast, by the
\* conversion and by drop are the ones the caller can no longer name.
C28_UsableHandleHoldsPointer ==
    /\ \A h \in 1..Len(handles) :
          /\ handles[h].owned => handles[h].inner # NULL
          /\ handles[h].inner = NULL => ~handles[h].owned
    /\ ~lastOp.panic

\* C28 witness: a handle was cast, which emptied and consumed it, and
\* as_ptr() on the handle the cast returned gave the pointer.
C28_Witness ==
    /\ lastOp.op = "as_ptr"
    /\ ~lastOp.panic
    /\ lastOp.ret # NULL
    /\ handles[lastOp.h].origin = "cast"
    /\ \E h2 \in 1..Len(handles) :
          /\ handles[h2].inner = NULL
          /\ ~handles[h2].owned
          /\ handles[h2].raw = lastOp.ret

(***************************************************************************)
(* Claims about wide strings                                               *)
(***************************************************************************)

\* C12: when the host allocator returns null for a string of L code units,
\* an encode path that allocates a wide string returns the typed allocation
\* error carrying L and does not panic. Stated here for into_variant of
\* String and of Box<String>.
C12_AllocFailureIsTypedError ==
    (vphase = "failed" /\ vres.via = "into_variant"
        /\ vsrc.K \in {"String", "Box_String"}) =>
        /\ vres.out.tag = "Err"
        /\ vres.out.err =
              IntoVariantError_AllocBStrFailed(Len(U16String_from_str(vsrc.val[1])))

\* C13: reading a wide string from a null pointer returns an error value
\* and does not panic, on every read path; from a non-null pointer the read
\* returns exactly the SysStringLen code units of the buffer.
C13_ReadNullIsError ==
    (bres.op \in ReadPaths /\ bphase = "held") =>
        IF bsrc.bstr = NULL
          THEN bres.out.tag = "Err"
          ELSE /\ bres.out.tag = "Ok"
               /\ Len(bres.out.val[1]) = SysStringLen(bheap, bsrc.bstr)
               /\ bres.out.val[1] = bheap[bsrc.bstr].data

\* C14: for every sequence s of code units, zero units at any position
\* included, the buffer allocate_bstr(s) returns has length prefix len(s)
\* and holds s, and from_bstr on it returns s: as many units as the host
\* reports, whatever their values.
C14_EmbeddedNulRoundTrip ==
    (bphase = "held" /\ bsrc.by \in {"allocate_bstr", "consume_to_bstr"}) =>
        /\ bheap[bsrc.bstr] = Obj("BSTR", bsrc.units)
        /\ bres.op \in ReadPaths =>
              /\ bres.out.tag = "Ok"
              /\ bres.out.val[1] = bsrc.units
              /\ Len(bres.out.val[1]) = Len(bsrc.units)

\* C14 witness: a string with a zero unit in the middle was allocated with
\* allocate_bstr and read back whole by from_bstr.
C14_Witness ==
    /\ bphase = "held"
    /\ bsrc.by = "allocate_bstr"
    /\ bsrc.units = <<97, 0, 97>>
    /\ bres.op = "from_bstr"
    /\ bres.out.tag = "Ok"
    /\ bres.out.val[1] = <<97, 0, 97>>

\* C15: a DroppableBString dropped without consume() having been called
\* passes its buffer to SysFreeString exactly once; consume() returns the
\* buffer's pointer and frees nothing, and a drop after consume() frees
\* nothing.
C15_ManagedFreedOnceUnlessConsumed ==
    /\ []((bphase = "dropped"
            /\ bsrc.by \in {"allocate_managed_bstr", "consume_to_managed_bstr"}) =>
             IF bres.op = "consume"
               THEN blog = <<>> /\ bheap[bsrc.bstr] = Obj("BSTR", bsrc.units)
               ELSE blog = <<bsrc.bstr>> /\ bheap[bsrc.bstr].t = "freed")
    /\ [][(bres'.op = "consume" /\ bown.inner # NULL) =>
             /\ bres'.out = Ok(bown.inner)
             /\ bown'.inner = NULL
             /\ blog' = blog]_vars

\* C15 witness: a DroppableBString was dropped unconsumed and its buffer was
\* freed once.
C15_Witness ==
    /\ bphase = "dropped"
    /\ bsrc.by = "allocate_managed_bstr"
    /\ bres.op = "allocate_managed_bstr"
    /\ blog = <<bsrc.bstr>>
    /\ bsrc.bstr # NULL

\* A DroppableBString that consume() has emptied and the caller still holds
Consumed == bphase = "held" /\ bown.kind = "DroppableBString" /\ bown.inner = NULL

\* C29: once consume() has emptied a DroppableBString, every later consume()
\* returns a null pointer and leaves it empty, and no later step on it, a
\* further consume or the final drop, calls SysFreeString or changes the
\* string.
C29_SecondConsumeIsNull ==
    /\ [][Consumed => /\ blog' = blog
                      /\ blog = <<>>
                      /\ bphase' # "idle" => bheap' = bheap
                      /\ bphase' = "held" =>
                            (Consumed' /\ bres' = [op |-> "consume", out |-> Ok(NULL)])]_vars
    /\ [](bphase = "dropped" /\ bres.op = "consume" =>
             blog = <<>> /\ bheap[bsrc.bstr] = Obj("BSTR", bsrc.units))

\* C29 witness: consume() was called a second time on a string of three
\* units and returned null; the string is still allocated.
C29_Witness ==
    /\ Consumed
    /\ bres = [op |-> "consume", out |-> Ok(NULL)]
    /\ bsrc.units = <<97, 0, 97>>
    /\ bheap[bsrc.bstr] = Obj("BSTR", bsrc.units)
    /\ blog = <<>>

(***************************************************************************)
(* Claims about nested value records and object references                 *)
(***************************************************************************)

\* The record the pointer payload of the record at var refers to.
ChildOf(heap, var) == PtrOf(Load(heap[var].data, tagVARIANT.n3[1], 8))

\* C16: encoding Variant<T> holding v, through the inherent
\* Variant::into_variant and through the VariantExt impl alike, gives an
\* outer record tagged VT_VARIANT whose pointer payload refers to a child
\* record tagged as T (one level of nesting); decoding the outer record as
\* Variant<T> returns v.
C16_OneLevelNesting ==
    (vsrc.K = "Variant_i32" /\ vsrc.by \in {"into_variant", "Variant::into_variant"}) =>
        /\ vphase = "encoded" =>
              /\ vt_of(vheap, vrec) = VT_VARIANT
              /\ Valid(vheap, ChildOf(vheap, vrec), "VARIANT")
              /\ vt_of(vheap, ChildOf(vheap, vrec)) = VARTYPE("i32")
        /\ (vphase = "decoded" /\ vres.K = "Variant_i32") =>
              (vres.out.tag = "Ok" /\ vres.out.val = vsrc.val)

\* C17: decoding a record of an object-reference kind (VT_UNKNOWN, or its
\* by-reference form VT_BYREF | VT_UNKNOWN) whose pointer is null returns
\* the typed null-pointer error and does not panic.
C17_NullObjectRefIsError ==
    (vphase = "decoded" /\ vsrc.by = "foreign"
        /\ \/ vsrc.K = "unk_null" /\ vres.K = "Ptr_IUnknown"
           \/ vsrc.K \in {"punk_null", "ppunk_null"} /\ vres.K = "Box_Ptr_IUnknown") =>
        /\ vres.out.tag = "Err"
        /\ vres.out.err = FromVariantError_UnknownPtrNull

\* C18: decoding a nested record as Variant<T> when its child record does
\* not decode as T (here: the child is tagged VT_I2 and T is i32) returns an
\* error carrying the child's failure and does not panic, through the
\* inherent Variant::from_variant and through the VariantExt impl alike.
C18_NestedFailureIsWrapped ==
    (vphase = "decoded" /\ vsrc.K = "var_i2" /\ vres.K = "Variant_i32") =>
        /\ vres.out.tag = "Err"
        /\ vres.out.err.expected = VT_I4
        /\ vres.out.err.found = VT_I2

(***************************************************************************)
(* Claims about element failures of the array codec                        *)
(***************************************************************************)

\* C19: when into_safearray fails while writing the element at zero-based
\* position i, it returns ElementConversionFailed with index = i and the
\* element's own error inside (PutElementFailed with its HRESULT, or
\* BStringFailed with the length asked for), and no element at a position
\* after i has been written.
C19_IntoFailureIndex ==
    (aphase = "failed" /\ ares.op = "into_safearray"
        /\ ares.fault.f \in {"SafeArrayPutElement", "SysAllocStringLen"}) =>
        LET i == ares.fault.ix
        IN  /\ ares.tag = "Err"
            /\ ares.err.e = "ElementConversionFailed"
            /\ ares.err.index = LE(i, 8)
            /\ IF ares.fault.f = "SafeArrayPutElement"
                 THEN ares.err.elem = "PutElementFailed" /\ ares.err.hr = ares.fault.hr
                 ELSE ares.err.elem = "BStringFailed"
                      /\ ares.err.hr = Len(asrc.seq[i + 1])
            /\ \A c \in 1..Len(CallsOf("SafeArrayPutElement")) :
                  CallsOf("SafeArrayPutElement")[c].ix <= i

\* C19 witness: writing the second of two strings failed in
\* SafeArrayPutElement, after the first was written.
C19_Witness ==
    /\ aphase = "failed"
    /\ ares.op = "into_safearray"
    /\ asrc.K = "U16String"
    /\ Len(asrc.seq) = 2
    /\ ares.fault.f = "SafeArrayPutElement"
    /\ ares.fault.ix = 1
    /\ ares.err.index = LE(1, 8)
    /\ Len(CallsOf("SafeArrayPutElement")) = 2

\* C20: when from_safearray fails while reading or converting the element
\* at array index ix, lower <= ix <= upper, it returns
\* ElementConversionFailed whose index, an unsigned number, is ix, whatever
\* the array's lower bound (zero, positive or negative), and no element
\* after ix has been read.
C20_FromFailureIndex ==
    (aphase = "decoded" /\ ares.op = "from_safearray"
        /\ ares.fault.f = "SafeArrayGetElement" /\ sa.cDims = 1
        /\ sa.vt = SFTYPE(ares.K)
        /\ ares.fault.ix \in sa.lLbound..(sa.lLbound + sa.cElements - 1)) =>
        LET ix == ares.fault.ix
        IN  /\ ares.tag = "Err"
            /\ ares.err.e = "ElementConversionFailed"
            /\ ix >= 0
            /\ ares.err.index = LE(ix, 8)
            /\ \A c \in 1..Len(CallsOf("SafeArrayGetElement")) :
                  CallsOf("SafeArrayGetElement")[c].ix <= ix
(***************************************************************************)
(* Claims about the array codec's element kinds and platform failures      *)
(***************************************************************************)

\* C21 as the specification states it: when a sequence of wide strings is
\* encoded as an array, the array's element kind is the nested value record
\* and no slot holds a raw string pointer.
C21_StringElementsNested ==
    (aphase = "built" /\ asrc.by = "into_safearray" /\ asrc.K = "U16String"
        /\ Len(asrc.seq) > 0) =>
        /\ sa.vt = VT_VARIANT
        /\ \A i \in 1..sa.cElements : ~Valid(aheap, PtrOf(sa.data[i]), "BSTR")

\* C21: when a sequence of wide strings is encoded as an array, the array's
\* element kind is the wide string (VT_BSTR), SafeArrayPutElement is called
\* once per element, and every slot holds a raw string pointer to a string
\* with the units of the element at that position.
C21_StringElementsRaw ==
    (aphase = "built" /\ asrc.by = "into_safearray" /\ asrc.K = "U16String") =>
        /\ sa.vt = VT_BSTR
        /\ sa.cElements = Len(asrc.seq)
        /\ Len(CallsOf("SafeArrayPutElement")) = Len(asrc.seq)
        /\ \A i \in 1..sa.cElements :
              /\ Valid(aheap, PtrOf(sa.data[i]), "BSTR")
              /\ aheap[PtrOf(sa.data[i])].data = asrc.seq[i]

\* C21 witness: two strings were encoded.
C21_Witness ==
    /\ aphase = "built"
    /\ asrc.by = "into_safearray"
    /\ asrc.K = "U16String"
    /\ Len(asrc.seq) = 2
    /\ sa.vt = VT_BSTR
    /\ Valid(aheap, PtrOf(sa.data[2]), "BSTR")

\* C22: when SafeArrayCreate returns null, into_safearray returns a typed
\* array error; it does not panic.
C22_CreateFailureIsTypedError ==
    (aphase = "failed" /\ ares.op = "into_safearray"
        /\ ares.fault.f = "SafeArrayCreate") =>
        ares.tag = "Err" /\ ares.err.e # "none"

\* The positions of the log at which the call named by the last operation's
\* fault was made.
FailingCalls ==
    {c \in 1..Len(alog) : alog[c].f = ares.fault.f /\ alog[c].ix = ares.fault.ix}

\* C23: when one of SafeArrayGetVartype, SafeArrayGetLBound,
\* SafeArrayGetUBound, SafeArrayGetElement or SafeArrayPutElement returns a
\* nonzero HRESULT h, the operation returns an error of the variant that
\* belongs to that call with h stored unchanged, and the failing call is
\* the last inspecting, reading or writing call made: only the release of
\* the array follows it.
C23_StatusPropagated ==
    (aphase \in {"decoded", "failed"}
        /\ ares.fault.f \in {"SafeArrayGetVartype", "SafeArrayGetLBound",
                             "SafeArrayGetUBound", "SafeArrayGetElement",
                             "SafeArrayPutElement"}
        /\ FailingCalls # {}) =>
        /\ ares.fault.hr # 0
        /\ ares.tag = "Err"
        /\ ares.err.hr = ares.fault.hr
        /\ CASE ares.fault.f = "SafeArrayGetVartype" ->
                  ares.err.e = "SafeArrayGetVartypeFailed"
             [] ares.fault.f = "SafeArrayGetLBound" ->
                  ares.err.e = "SafeArrayLBoundFailed"
             [] ares.fault.f = "SafeArrayGetUBound" ->
                  ares.err.e = "SafeArrayRBoundFailed"
             [] ares.fault.f = "SafeArrayGetElement" ->
                  ares.err.e = "ElementConversionFailed"
                    /\ ares.err.elem = "GetElementFailed"
             [] ares.fault.f = "SafeArrayPutElement" ->
                  ares.err.e = "ElementConversionFailed"
                    /\ ares.err.elem = "PutElementFailed"
        /\ Cardinality(FailingCalls) = 1
        /\ \A c \in FailingCalls : \A d \in (c + 1)..Len(alog) :
              alog[d].f = "SafeArrayDestroy"

\* C23 witness: the upper bound could not be read; the kind and the lower
\* bound had been read before, and the array was released afterwards.
C23_Witness ==
    /\ aphase = "decoded"
    /\ ares.fault.f = "SafeArrayGetUBound"
    /\ ares.fault.hr = 1
    /\ ares.err = FromSafeArrayError_hr("SafeArrayRBoundFailed", 1)
    /\ Len(CallsOf("SafeArrayGetVartype")) = 1
    /\ Len(CallsOf("SafeArrayGetLBound")) = 1
    /\ Len(CallsOf("SafeArrayGetUBound")) = 1
    /\ alog[Len(alog)].f = "SafeArrayDestroy"

\* C27: when Vec<T>::from_variant returns, with Ok, with the mismatch error
\* of the record's discriminant or with an error of the array codec, the
\* array the record refers to has been destroyed exactly once, counting the
\* destroy inside VariantClear and the array codec's own.
C27_ArrayDestroyedOnce ==
    (aphase = "decoded" /\ ares.op = "Vec::from_variant" /\ ares.tag \in {"Ok", "Err"}) =>
        /\ sa.destroyed = 1
        /\ Len(CallsOf("SafeArrayDestroy")) = 1
        /\ Len(CallsOf("VariantClear")) <= 1

\* C27 witness: the second element of an array inside a record could not be
\* read; the array was destroyed once, by the array codec.
C27_Witness ==
    /\ aphase = "decoded"
    /\ ares.op = "Vec::from_variant"
    /\ asrc.vt = VT_ARRAY
    /\ ares.fault.f = "SafeArrayGetElement"
    /\ ares.fault.ix = 1
    /\ ares.err.e = "ElementConversionFailed"
    /\ sa.destroyed = 1
    /\ CallsOf("VariantClear") = <<>>


\* C30: for an array of object references, the pointer from_safearray yields
\* for index i is the interface pointer stored in slot i, the one
\* into_safearray or foreign code put there; it points at a live object after
\* the read and is not the address of the reader's staging value.
C30_ObjectRefIsSlotPointer ==
    (aphase = "decoded" /\ asrc.K = "Ptr_IUnknown" /\ ares.K = "Ptr_IUnknown"
        /\ ares.tag = "Ok") =>
        /\ Len(ares.val) = Len(asrc.seq)
        /\ \A i \in 1..Len(ares.val) :
              /\ ares.val[i] = asrc.seq[i]
              /\ ares.val[i] # def_val_addr
              /\ Valid(aheap, ares.val[i], "IUnknown")
(***************************************************************************)
(* Claims about the value adapters (types.rs)                              *)
(***************************************************************************)

C25_DecimalRoundTrip ==
    /\ \A d \in ValuesOf("DecWrapper") :
          LET c == build_c_decimal(d)
          IN  /\ Len(c) = 16
              /\ Field(c, DECIMAL.Lo64) = LE(d.lo, 4) \o LE(d.mid, 4)
              /\ Field(c, DECIMAL.Hi32) = LE(d.hi, 4)
              /\ Field(c, DECIMAL.scale) = <<d.scale>>
              /\ Field(c, DECIMAL.sign) = <<IF d.negative THEN DECIMAL_NEG ELSE 0>>
              /\ build_rust_decimal(c) = d
    /\ (vphase = "decoded" /\ vsrc.K = "decimal" /\ vres.K = "DecWrapper") =>
          vres.out.tag = "Ok" /\ vres.out.val = vsrc.val

\* C25 witness: a negative decimal with three nonzero limbs and scale 3 came
\* from foreign code and was decoded.
C25_Witness ==
    /\ vphase = "decoded"
    /\ vsrc.K = "decimal"
    /\ vres.K = "DecWrapper"
    /\ vsrc.val = <<Dec(3, 1, 65535, TRUE, 3)>>
    /\ vres.out.val = <<Dec(3, 1, 65535, TRUE, 3)>>

\* C26: VariantBool(true) converts to the VARIANT_BOOL 0x0000 and
\* VariantBool(false) to 0xFFFF, as the slots of an encoded array of
\* VariantBool show.
C26_TrueIsZero ==
    (aphase = "built" /\ asrc.by = "into_safearray" /\ asrc.K = "VariantBool") =>
        \A i \in 1..Len(asrc.seq) :
            sa.data[i] = (IF asrc.seq[i] THEN <<0, 0>> ELSE <<255, 255>>)

====
